---- MODULE Spec2Model ----
(***************************************************************************)
(* Model of the real-time event processor of weatherwise                   *)
(* (backend/app/services/realtime_events.py, class EventProcessor) and of  *)
(* the websocket endpoint that drives it (backend/app/api/realtime.py).    *)
(*                                                                         *)
(* The host is a single-threaded asyncio loop: a coroutine runs without    *)
(* interruption from one await to the next.  The variable running holds    *)
(* the task that owns the loop; it is NoTask while every task is suspended *)
(* in an await.                                                            *)
(***************************************************************************)
EXTENDS Integers, Sequences, FiniteSets, TLC

\* ------------------------------------------------------------------ bounds
MaxProcs == 1          \* concurrent process_weather_update calls
MaxSockets == 2        \* websocket objects ever created
MaxEvents == 2         \* events ever created (event ids 1..MaxEvents)
MaxHistEvents == 53    \* events ever created in the history specification
MaxSideUpdates == 1    \* updates of the second caller in the history specification
MaxClock == 13         \* last reading of the clock, in half hours
MaxDrift == 1          \* most the clock advances between two reads of one check
MaxWatchEvents == 2    \* events ever created in the expiry specification
MaxRepeatUpdates == 2  \* calls in the specification of repeated updates
MaxRiskRows == 2       \* rows of current weather and forecast held for the location
MaxCalmRows == 14      \* calm observations at the start of a series
MaxTailRows == 2       \* observations of any kind at the end of a series
MaxCandidates == 13    \* candidates the detection passes hand to the deduplication
MaxTrendRows == 8      \* observations of a series for the trend analysis

Procs == 1..MaxProcs
Sockets == 1..MaxSockets
NoTask == 0

\* --------------------------------------------------------------- severity
\* AlertSeverity, ordered info < warning < critical < emergency; 0 is None.
NoSeverity == 0
INFO == 1
WARNING == 2
CRITICAL == 3
EMERGENCY == 4

SeverityMax(a, b) == IF a >= b THEN a ELSE b

\* alert_thresholds, _load_alert_thresholds
WindWarning == 60
WindCritical == 90
WindEmergency == 120
PressureDropWarning == 10
PressureDropCritical == 20
PressureDropEmergency == 30
TempWarning == 35
TempCritical == 40
TempEmergency == 45
HeatIndexWarning == 40
HeatIndexCritical == 52
HeatIndexEmergency == 55
HistoryLimit == 50
RecentLimit == 5

\* datetime.now(timezone.utc) is read in half hours; timedelta(hours=N)
Hour == 2
TyphoonExpiry == 6 * Hour
HeatExpiry == 12 * Hour
FloodExpiry == 24 * Hour
\* expires_at = None
NoExpiry == -1

\* ------------------------------------------- exact arithmetic on naturals
\* The heat index polynomial has eight-decimal coefficients and terms of
\* magnitude 10^12 once scaled to integers, beyond the 32-bit integers of
\* TLC.  Naturals are therefore little-endian sequences of limbs in base
\* 10000.
Base == 10000

RECURSIVE BigOf(_)
BigOf(n) == IF n = 0 THEN <<>> ELSE <<n % Base>> \o BigOf(n \div Base)

Limb(a, i) == IF i <= Len(a) THEN a[i] ELSE 0

RECURSIVE BigAddFrom(_, _, _, _)
BigAddFrom(a, b, i, carry) ==
    IF i > Len(a) /\ i > Len(b)
    THEN (IF carry = 0 THEN <<>> ELSE <<carry>>)
    ELSE LET s == Limb(a, i) + Limb(b, i) + carry
         IN  <<s % Base>> \o BigAddFrom(a, b, i + 1, s \div Base)

BigAdd(a, b) == BigAddFrom(a, b, 1, 0)

\* a * k for 0 <= k <= 200000
RECURSIVE BigScaleFrom(_, _, _, _)
BigScaleFrom(a, k, i, carry) ==
    IF i > Len(a)
    THEN BigOf(carry)
    ELSE LET s == a[i] * k + carry
         IN  <<s % Base>> \o BigScaleFrom(a, k, i + 1, s \div Base)

BigScale(a, k) == IF k = 0 THEN <<>> ELSE BigScaleFrom(a, k, 1, 0)

\* a >= b, comparing from the most significant limb
RECURSIVE BigGeqFrom(_, _, _)
BigGeqFrom(a, b, i) ==
    IF i = 0 THEN TRUE
    ELSE IF Limb(a, i) > Limb(b, i) THEN TRUE
    ELSE IF Limb(a, i) < Limb(b, i) THEN FALSE
    ELSE BigGeqFrom(a, b, i - 1)

BigGeq(a, b) == BigGeqFrom(a, b, IF Len(a) >= Len(b) THEN Len(a) ELSE Len(b))

\* ------------------------------------------------------------- heat index
\* A heat index is held as the pair [pos, neg] of naturals with
\* heat_index * HeatScale = pos - neg, HeatScale = 45 * 10^8
\* (10^8 for the coefficients' decimals, 25 for temp_f^2 with
\* temp_f = (9 * temp_c + 160) / 5, and 9/5 for the return to Celsius).
HeatScaleBig == BigScale(BigOf(100000), 45000)

\* _calculate_heat_index(temp_c, humidity) for integer temp_c >= 0
calculate_heat_index(temp_c, humidity) ==
    LET f5 == 9 * temp_c + 160          \* 5 * temp_f
        h  == humidity
        T1(c) == BigScale(BigOf(c), f5)               \* c * f5
        T2(c) == BigScale(BigScale(BigOf(c), f5), f5) \* c * f5^2
        H1(x) == BigScale(x, h)
        H2(x) == BigScale(BigScale(x, h), h)
        pos == BigAdd(BigAdd(BigScale(T1(204901523), 5),
                             H1(BigScale(BigOf(1014333127), 25))),
                      BigAdd(H1(T2(122874)),
                             H2(BigScale(T1(85282), 5))))
        neg == BigAdd(BigAdd(BigAdd(BigScale(BigScale(BigOf(42379), 100000), 25),
                                    H1(BigScale(T1(22475541), 5))),
                             BigAdd(T2(683783),
                                    H2(BigScale(BigOf(5481717), 25)))),
                      BigAdd(H2(T2(199)),
                             BigScale(BigScale(BigOf(32), 100000), 25000)))
    IN  IF f5 < 400       \* temp_f < 80
        THEN [pos |-> BigScale(HeatScaleBig, temp_c), neg |-> <<>>]
        ELSE [pos |-> pos, neg |-> neg]

\* heat_index >= x for a natural x
HeatGeq(heat_index, x) ==
    BigGeq(heat_index.pos, BigAdd(heat_index.neg, BigScale(HeatScaleBig, x)))

\* ------------------------------------------------------------ observations
\* weather_data: integer wind_speed (km/h), pressure (hPa), temperature
\* (degrees C) and humidity (%), reported for a location.
Observation(w, pr, t, h) ==
    [wind_speed |-> w, pressure |-> pr, temperature |-> t, humidity |-> h,
     location |-> "Manila"]

\* a weather_data dict without the key 'location'
Missing == "<missing>"
Unlocated(obs) == [obs EXCEPT !.location = Missing]

\* weather_data.get('location', 'Unknown') (line 113)
get_location(weather_data) ==
    IF weather_data.location = Missing THEN "Unknown" ELSE weather_data.location

NoData == Observation(0, 0, 0, 0)

\* RealTimeEvent; event_id stands for the uuid4 string
Event(id, type, location, sev, timestamp, expires_at) ==
    [event_id |-> id, event_type |-> type, location |-> location, severity |-> sev,
     timestamp |-> timestamp, expires_at |-> expires_at]

EventTypes == {"typhoon_warning", "heat_warning", "flood_warning"}

\* ---------------------------------------------------------- typhoon check
\* 100 * (baseline_pressure - pressure), baseline_pressure = 1013.25
pressure_drop100(pressure) == 101325 - 100 * pressure

\* _check_typhoon_conditions, the wind ladder: severity after it
typhoon_wind_severity(wind_speed) ==
    IF wind_speed >= WindEmergency THEN EMERGENCY
    ELSE IF wind_speed >= WindCritical THEN CRITICAL
    ELSE IF wind_speed >= WindWarning THEN WARNING
    ELSE NoSeverity

\* _check_typhoon_conditions, the pressure ladder applied to the severity
\* the wind ladder left: an upgrade happens only from None or 'warning'
typhoon_severity(data) ==
    LET sev  == typhoon_wind_severity(data.wind_speed)
        drop == pressure_drop100(data.pressure)
    IN  IF drop >= 100 * PressureDropEmergency
        THEN (IF sev = NoSeverity \/ sev = WARNING THEN EMERGENCY ELSE sev)
        ELSE IF drop >= 100 * PressureDropCritical
        THEN (IF sev = NoSeverity \/ sev = WARNING THEN CRITICAL ELSE sev)
        ELSE IF drop >= 100 * PressureDropWarning
        THEN (IF sev = NoSeverity THEN WARNING ELSE sev)
        ELSE sev

\* number of entries of the conditions list
typhoon_conditions(data) ==
    (IF data.wind_speed >= WindWarning THEN 1 ELSE 0)
    + (IF pressure_drop100(data.pressure) >= 100 * PressureDropWarning THEN 1 ELSE 0)

\* the Optional result as a sequence of zero or one event; the constructor
\* call reads the clock twice (lines 192-193): read1 for timestamp, read2 for
\* expires_at
check_typhoon_conditions(data, location, id, read1, read2) ==
    IF typhoon_severity(data) # NoSeverity /\ typhoon_conditions(data) > 0
    THEN <<Event(id, "typhoon_warning", location, typhoon_severity(data),
                 read1, read2 + TyphoonExpiry)>>
    ELSE <<>>

\* ------------------------------------------------------------- heat check
heat_severity(data) ==
    LET heat_index == calculate_heat_index(data.temperature, data.humidity)
    IN  IF HeatGeq(heat_index, HeatIndexEmergency) THEN EMERGENCY
        ELSE IF HeatGeq(heat_index, HeatIndexCritical) THEN CRITICAL
        ELSE IF HeatGeq(heat_index, HeatIndexWarning) THEN WARNING
        ELSE IF data.temperature >= TempWarning THEN WARNING
        ELSE NoSeverity

\* the clock reads of lines 233-234
check_heat_conditions(data, location, id, read1, read2) ==
    IF heat_severity(data) # NoSeverity
    THEN <<Event(id, "heat_warning", location, heat_severity(data),
                 read1, read2 + HeatExpiry)>>
    ELSE <<>>

\* ------------------------------------------------------------ flood check
\* _get_recent_rainfall: the placeholder returns 0.0 for every location
get_recent_rainfall == 0

\* flood_risk_score in tenths; every sum the code can form (0.4+0.3,
\* 0.2+0.1+0.2, ...) compares with 0.5 and 0.7 in binary floating point as
\* the tenths compare with 5 and 7
flood_risk_score(data) ==
    (IF data.humidity > 90 THEN 4 ELSE IF data.humidity > 85 THEN 2 ELSE 0)
    + (IF data.pressure < 995 THEN 3 ELSE IF data.pressure < 1005 THEN 1 ELSE 0)
    + (IF data.temperature > 30 /\ data.humidity > 80 THEN 2 ELSE 0)
    + (IF get_recent_rainfall > 50 THEN 4 ELSE 0)

\* number of entries of the risk_factors list
flood_risk_factors(data) ==
    (IF data.humidity > 85 THEN 1 ELSE 0)
    + (IF data.pressure < 1005 THEN 1 ELSE 0)
    + (IF data.temperature > 30 /\ data.humidity > 80 THEN 1 ELSE 0)
    + (IF get_recent_rainfall > 50 THEN 1 ELSE 0)

FloodSeverityLax(score) ==
    IF score >= 7 THEN CRITICAL ELSE IF score >= 4 THEN WARNING ELSE NoSeverity

flood_severity(score) ==
    IF score >= 7 THEN CRITICAL ELSE IF score >= 5 THEN WARNING ELSE NoSeverity

\* the clock reads of lines 296-297
check_flood_conditions(data, location, id, read1, read2) ==
    IF flood_severity(flood_risk_score(data)) # NoSeverity /\ flood_risk_factors(data) > 0
    THEN <<Event(id, "flood_warning", location, flood_severity(flood_risk_score(data)),
                 read1, read2 + FloodExpiry)>>
    ELSE <<>>

DetectFirstHazard(data, first_id, read1, read2) ==
    LET location == get_location(data)
        ty == check_typhoon_conditions(data, location, first_id, read1, read2)
        he == check_heat_conditions(data, location, first_id, read1, read2)
        fl == check_flood_conditions(data, location, first_id, read1, read2)
    IN  IF ty # <<>> THEN ty ELSE IF he # <<>> THEN he ELSE fl

\* process_weather_update, lines 112-130: the events list; each produced
\* event takes the next unused id.  The three checks run back to back: each
\* reads the clock at read1 for its timestamp and at read2 for its expiry.
detect_events(data, first_id, read1, read2) ==
    LET location == get_location(data)
        ty == check_typhoon_conditions(data, location, first_id, read1, read2)
        he == check_heat_conditions(data, location, first_id + Len(ty), read1, read2)
        fl == check_flood_conditions(data, location, first_id + Len(ty) + Len(he),
                                     read1, read2)
    IN  ty \o he \o fl

\* ------------------------------------------------- binary floating point
\* The risk scorer adds and multiplies Python floats (IEEE 754 binary64,
\* round to nearest, ties to even).  Every float it forms is zero or lies in
\* [2^-7, 2), so it is a multiple of 2^-60: the float x is held as the natural
\* number x * 2^60, and a natural number as the little-endian sequence of its
\* limbs below 2^15, without leading zero limbs.
LimbBits == 15
LimbBase == 32768
MantissaBits == 53
FloatScale == 60

RECURSIVE NatTrim(_)
NatTrim(a) ==
    IF a = <<>> THEN a
    ELSE IF a[Len(a)] = 0 THEN NatTrim(SubSeq(a, 1, Len(a) - 1))
    ELSE a

NatOf(n) == IF n = 0 THEN <<>> ELSE <<n>>
NatToInt(a) ==
    IF a = <<>> THEN 0 ELSE IF Len(a) = 1 THEN a[1] ELSE a[1] + LimbBase * a[2]
NatLimb(a, i) == IF i <= Len(a) THEN a[i] ELSE 0
NatZeros(n) == [i \in 1..n |-> 0]
NatOdd(a) == a # <<>> /\ a[1] % 2 = 1

RECURSIVE NatAddFrom(_, _, _, _)
NatAddFrom(a, b, i, carry) ==
    IF i > Len(a) /\ i > Len(b)
    THEN (IF carry = 0 THEN <<>> ELSE <<carry>>)
    ELSE LET t == NatLimb(a, i) + NatLimb(b, i) + carry
         IN  <<t % LimbBase>> \o NatAddFrom(a, b, i + 1, t \div LimbBase)

NatAdd(a, b) == NatAddFrom(a, b, 1, 0)

\* a * k for 0 <= k <= 2^15
RECURSIVE NatScaleFrom(_, _, _, _)
NatScaleFrom(a, k, i, carry) ==
    IF i > Len(a)
    THEN (IF carry = 0 THEN <<>> ELSE <<carry>>)
    ELSE LET t == a[i] * k + carry
         IN  <<t % LimbBase>> \o NatScaleFrom(a, k, i + 1, t \div LimbBase)

NatScale(a, k) == IF k = 0 THEN <<>> ELSE NatScaleFrom(a, k, 1, 0)

RECURSIVE NatMulFrom(_, _, _)
NatMulFrom(a, b, i) ==
    IF i > Len(b) THEN <<>>
    ELSE IF b[i] = 0 \/ a = <<>> THEN NatMulFrom(a, b, i + 1)
    ELSE NatAdd(NatZeros(i - 1) \o NatScale(a, b[i]), NatMulFrom(a, b, i + 1))

NatMul(a, b) == NatMulFrom(a, b, 1)

\* floor(a / d) for 1 <= d <= 2^15: long division from the top limb down
RECURSIVE NatDivFrom(_, _, _, _)
NatDivFrom(a, d, i, rem) ==
    IF i = 0 THEN <<>>
    ELSE LET t == rem * LimbBase + a[i]
         IN  NatDivFrom(a, d, i - 1, t % d) \o <<t \div d>>

NatDiv(a, d) == NatTrim(NatDivFrom(a, d, Len(a), 0))

RECURSIVE SmallBits(_)
SmallBits(x) == IF x = 0 THEN 0 ELSE 1 + SmallBits(x \div 2)

\* the number of significant bits
NatBits(a) == IF a = <<>> THEN 0 ELSE LimbBits * (Len(a) - 1) + SmallBits(a[Len(a)])

RECURSIVE Pow2(_)
Pow2(k) == IF k = 0 THEN 1 ELSE 2 * Pow2(k - 1)

\* floor(a / 2^k) and a * 2^k
NatShiftRight(a, k) ==
    IF k \div LimbBits >= Len(a) THEN <<>>
    ELSE NatDiv(SubSeq(a, k \div LimbBits + 1, Len(a)), Pow2(k % LimbBits))

NatShiftLeft(a, k) ==
    IF a = <<>> THEN <<>>
    ELSE NatZeros(k \div LimbBits) \o NatScale(a, Pow2(k % LimbBits))

RECURSIVE NatGeqFrom(_, _, _)
NatGeqFrom(a, b, i) ==
    IF i = 0 THEN TRUE
    ELSE IF a[i] # b[i] THEN a[i] > b[i]
    ELSE NatGeqFrom(a, b, i - 1)

NatGeq(a, b) == IF Len(a) # Len(b) THEN Len(a) > Len(b) ELSE NatGeqFrom(a, b, Len(a))

\* a / 2^k rounded to the nearest natural number, a tie to the even one
NatRoundShift(a, k) ==
    IF k = 0 THEN a
    ELSE LET q2     == NatShiftRight(a, k - 1)
             q      == NatDiv(q2, 2)
             sticky == NatShiftLeft(q2, k - 1) # a
         IN  IF NatOdd(q2) /\ (sticky \/ NatOdd(q)) THEN NatAdd(q, <<1>>) ELSE q

\* the nearest number of at most 53 significant bits
RoundToDouble(a) ==
    IF NatBits(a) <= MantissaBits THEN a
    ELSE NatShiftLeft(NatRoundShift(a, NatBits(a) - MantissaBits),
                      NatBits(a) - MantissaBits)

\* x + y, x * y and x >= y on floats; a product the scorer forms is zero or
\* at least 2^-7, so its rounded value is a multiple of 2^-60
FloatAdd(x, y) == RoundToDouble(NatAdd(x, y))
FloatMul(x, y) == NatShiftRight(RoundToDouble(NatMul(x, y)), FloatScale)
FloatGeq(x, y) == NatGeq(x, y)

\* the float of the decimal literal num/den: the quotient is taken with 64
\* further bits and its last bit is set when the division left a remainder
FloatOf(num, den) ==
    LET wide   == NatShiftLeft(NatOf(num), FloatScale + 64)
        q      == NatDiv(wide, den)
        marked == IF NatScale(q, den) = wide \/ NatOdd(q) THEN q ELSE NatAdd(q, <<1>>)
    IN  NatShiftRight(RoundToDouble(marked), 64)

\* round(x, 2) in hundredths: the hundredth nearest to x, a tie to the even one
round2(x) == NatToInt(NatRoundShift(NatScale(x, 100), FloatScale))

\* ------------------------------------------- weather analysis: the tables
\* WeatherAnalysisService reads the rows of one location.  The pipeline fills
\* every column the service reads; values are whole numbers.
CurrentRow(ts, t, h, pr, w, cond, vis) ==
    [timestamp |-> ts, temperature |-> t, humidity |-> h, pressure |-> pr,
     wind_speed |-> w, weather_condition |-> cond, visibility |-> vis]

\* forecast_date is held in the field timestamp, as _get_forecast_data returns it
ForecastRow(ts, t, h, pr, w, cond, pp) ==
    [timestamp |-> ts, temperature |-> t, humidity |-> h, pressure |-> pr,
     wind_speed |-> w, weather_condition |-> cond, precipitation_probability |-> pp]

Day == 24 * Hour

Members(q) == {q[i] : i \in 1..Len(q)}

RECURSIVE Reverse(_)
Reverse(q) == IF q = <<>> THEN q ELSE Append(Reverse(Tail(q)), Head(q))

\* a table is kept in the order of its timestamps
Sorted(table) == \A i, j \in 1..Len(table) : i < j => table[i].timestamp <= table[j].timestamp

\* _get_weather_data: the rows of the last days, newest first
get_weather_data(table, t, days) ==
    Reverse(SelectSeq(table, LAMBDA r : r.timestamp >= t - days * Day))

\* _get_forecast_data: the rows dated from t to t + hours, by date
get_forecast_data(table, t, hours) ==
    SelectSeq(table, LAMBDA r : r.timestamp >= t /\ r.timestamp <= t + hours * Hour)

\* [d[field] for d in rows if field in d and d[field]]: zero is falsy
RECURSIVE FieldValues(_, _)
FieldValues(rows, field) ==
    IF rows = <<>> THEN <<>>
    ELSE (IF field \in DOMAIN Head(rows) /\ Head(rows)[field] # 0
          THEN <<Head(rows)[field]>> ELSE <<>>)
         \o FieldValues(Tail(rows), field)

\* [d[field] for d in rows if field in d]
RECURSIVE FieldEntries(_, _)
FieldEntries(rows, field) ==
    IF rows = <<>> THEN <<>>
    ELSE (IF field \in DOMAIN Head(rows) THEN <<Head(rows)[field]>> ELSE <<>>)
         \o FieldEntries(Tail(rows), field)

SeqMax(q) == CHOOSE x \in Members(q) : \A y \in Members(q) : x >= y
SeqMin(q) == CHOOSE x \in Members(q) : \A y \in Members(q) : x <= y
RECURSIVE SeqSum(_)
SeqSum(q) == IF q = <<>> THEN 0 ELSE Head(q) + SeqSum(Tail(q))
Abs(x) == IF x < 0 THEN -x ELSE x

\* ------------------------------------------------ weather analysis: risk
\* the float literals of the risk scorer
Float00 == <<>>
Float01 == FloatOf(1, 10)
Float02 == FloatOf(2, 10)
Float03 == FloatOf(3, 10)
Float04 == FloatOf(4, 10)
Float06 == FloatOf(6, 10)
Float08 == FloatOf(8, 10)
Float10 == FloatOf(1, 1)

FloatMin(x, y) == IF FloatGeq(x, y) THEN y ELSE x

\* a wind ladder with a top rung of 0.6
TyphoonWindTopHeavy(all_data) ==
    LET wind_speeds == FieldValues(all_data, "wind_speed")
    IN  IF wind_speeds = <<>> THEN Float00
        ELSE IF SeqMax(wind_speeds) >= 120 THEN Float06
        ELSE IF SeqMax(wind_speeds) >= 90 THEN Float03
        ELSE IF SeqMax(wind_speeds) >= 60 THEN Float02
        ELSE IF SeqMax(wind_speeds) >= 40 THEN Float01
        ELSE Float00

\* _calculate_typhoon_risk, the wind ladder on the largest wind speed
typhoon_wind_risk(all_data) ==
    LET wind_speeds == FieldValues(all_data, "wind_speed")
    IN  IF wind_speeds = <<>> THEN Float00
        ELSE IF SeqMax(wind_speeds) >= 120 THEN Float04
        ELSE IF SeqMax(wind_speeds) >= 90 THEN Float03
        ELSE IF SeqMax(wind_speeds) >= 60 THEN Float02
        ELSE IF SeqMax(wind_speeds) >= 40 THEN Float01
        ELSE Float00

\* _calculate_typhoon_risk, the pressure ladder: max_drop is abs(min(...)) of
\* the differences of consecutive pressures of the merged list
typhoon_pressure_risk(all_data) ==
    LET pressures == FieldValues(all_data, "pressure")
        pressure_changes == [i \in 1..(Len(pressures) - 1) |->
                                pressures[i + 1] - pressures[i]]
        max_drop == Abs(SeqMin(pressure_changes))
    IN  IF Len(pressures) <= 1 THEN Float00
        ELSE IF max_drop >= 25 THEN Float03
        ELSE IF max_drop >= 15 THEN Float02
        ELSE IF max_drop >= 10 THEN Float01
        ELSE Float00

calculate_typhoon_risk(current_data, forecast_data) ==
    IF current_data = <<>> /\ forecast_data = <<>> THEN Float00
    ELSE FloatMin(Float10,
                  FloatAdd(typhoon_wind_risk(current_data \o forecast_data),
                           typhoon_pressure_risk(current_data \o forecast_data)))

\* _calculate_flood_risk, the ladder on the mean humidity: the humidities are
\* whole numbers, so sum / len >= c exactly when sum >= c * len
flood_humidity_risk(all_data) ==
    LET humidity_values == FieldValues(all_data, "humidity")
        total == SeqSum(humidity_values)
        n     == Len(humidity_values)
    IN  IF humidity_values = <<>> THEN Float00
        ELSE IF total >= 95 * n THEN Float03
        ELSE IF total >= 90 * n THEN Float02
        ELSE IF total >= 80 * n THEN Float01
        ELSE Float00

\* _calculate_flood_risk, the ladder on the largest precipitation probability
\* of the forecast
flood_precipitation_risk(forecast_data) ==
    LET precip_probs == FieldEntries(forecast_data, "precipitation_probability")
    IN  IF precip_probs = <<>> THEN Float00
        ELSE IF SeqMax(precip_probs) >= 90 THEN Float04
        ELSE IF SeqMax(precip_probs) >= 70 THEN Float03
        ELSE IF SeqMax(precip_probs) >= 50 THEN Float02
        ELSE Float00

calculate_flood_risk(current_data, forecast_data) ==
    IF current_data = <<>> /\ forecast_data = <<>> THEN Float00
    ELSE FloatMin(Float10,
                  FloatAdd(flood_humidity_risk(current_data \o forecast_data),
                           flood_precipitation_risk(forecast_data)))

calculate_heat_risk(current_data, forecast_data) ==
    LET temperatures == FieldValues(current_data \o forecast_data, "temperature")
    IN  IF temperatures = <<>> THEN Float00
        ELSE IF SeqMax(temperatures) >= 42 THEN Float04
        ELSE IF SeqMax(temperatures) >= 38 THEN Float03
        ELSE IF SeqMax(temperatures) >= 35 THEN Float02
        ELSE IF SeqMax(temperatures) >= 32 THEN Float01
        ELSE Float00

severe_conditions == {"Thunderstorm", "Snow", "Tornado", "Severe"}

general_visibility_risk(all_data) ==
    LET visibility_values == FieldEntries(all_data, "visibility")
    IN  IF visibility_values = <<>> THEN Float00
        ELSE IF SeqMin(visibility_values) < 2 THEN Float02
        ELSE IF SeqMin(visibility_values) < 5 THEN Float01
        ELSE Float00

general_condition_risk(all_data) ==
    IF \E d \in Members(all_data) : d.weather_condition \in severe_conditions
    THEN Float03 ELSE Float00

calculate_general_weather_risk(current_data, forecast_data) ==
    IF current_data = <<>> /\ forecast_data = <<>> THEN Float00
    ELSE FloatMin(Float10,
                  FloatAdd(general_visibility_risk(current_data \o forecast_data),
                           general_condition_risk(current_data \o forecast_data)))

\* the sum with the weights of typhoon and flooding exchanged
WeightedSumSwapped(typhoon, flooding, heat_stress, general_weather) ==
    FloatAdd(FloatAdd(FloatAdd(FloatMul(typhoon, Float03),
                               FloatMul(flooding, Float04)),
                      FloatMul(heat_stress, Float02)),
             FloatMul(general_weather, Float01))

\* sum(category_risks[cat] * risk_weights[cat] for cat in category_risks),
\* added from the left in the order of the dict (lines 212-213)
weighted_overall_risk(typhoon, flooding, heat_stress, general_weather) ==
    FloatAdd(FloatAdd(FloatAdd(FloatMul(typhoon, Float04),
                               FloatMul(flooding, Float03)),
                      FloatMul(heat_stress, Float02)),
             FloatMul(general_weather, Float01))

\* _categorize_risk_level
categorize_risk_level(risk_score) ==
    IF FloatGeq(risk_score, Float08) THEN "CRITICAL"
    ELSE IF FloatGeq(risk_score, Float06) THEN "HIGH"
    ELSE IF FloatGeq(risk_score, Float04) THEN "MODERATE"
    ELSE IF FloatGeq(risk_score, Float02) THEN "LOW"
    ELSE "MINIMAL"

\* RiskScore, its risks in hundredths; the lists of recommendations and
\* contributing factors are texts derived from the same numbers and left out
RiskScore(overall, typhoon, flooding, heat_stress, general_weather, level, confidence) ==
    [overall_risk |-> overall,
     category_risks |-> [typhoon |-> typhoon, flooding |-> flooding,
                         heat_stress |-> heat_stress,
                         general_weather |-> general_weather],
     risk_level |-> level, confidence |-> confidence]

\* a default that reports the lowest level
DefaultMinimal == RiskScore(0, 0, 0, 0, 0, "MINIMAL", 0)

\* _default_risk_score
default_risk_score == RiskScore(0, 0, 0, 0, 0, "UNKNOWN", 0)

\* calculate_risk_scores at clock reading t, forecast_hours = 24
calculate_risk_scores(current_table, forecast_table, t) ==
    LET current_data    == get_weather_data(current_table, t, 1)
        forecast_data   == get_forecast_data(forecast_table, t, 24)
        typhoon_risk    == calculate_typhoon_risk(current_data, forecast_data)
        flood_risk      == calculate_flood_risk(current_data, forecast_data)
        heat_risk       == calculate_heat_risk(current_data, forecast_data)
        general_risk    == calculate_general_weather_risk(current_data, forecast_data)
        overall_risk    == weighted_overall_risk(typhoon_risk, flood_risk, heat_risk,
                                                 general_risk)
    IN  IF current_data = <<>> /\ forecast_data = <<>>
        THEN default_risk_score
        ELSE RiskScore(round2(overall_risk), round2(typhoon_risk), round2(flood_risk),
                       round2(heat_risk), round2(general_risk),
                       categorize_risk_level(overall_risk), 85)

\* --------------------------------------------- weather analysis: anomalies
\* The z-scores and confidences of the detector are ratios of square roots.
\* They are held exactly, as the square of the float written as a fraction
\* <<numerator, denominator>> in lowest terms; every comparison the code
\* makes between two of them is made between the squares.
RECURSIVE GCD(_, _)
GCD(a, b) == IF b = 0 THEN a ELSE GCD(b, a % b)
Frac(num, den) == <<num \div GCD(num, den), den \div GCD(num, den)>>
\* x < y by cross-multiplication, the products taken in limbs
NatOfInt(n) ==
    NatTrim(<<n % LimbBase, (n \div LimbBase) % LimbBase, n \div (LimbBase * LimbBase)>>)
FracLess(x, y) ==
    ~NatGeq(NatMul(NatOfInt(x[1]), NatOfInt(y[2])), NatMul(NatOfInt(y[1]), NatOfInt(x[2])))
FracAdd(x, y) == Frac(x[1] * y[2] + y[1] * x[2], x[2] * y[2])
FracMin(x, y) == IF FracLess(y, x) THEN y ELSE x

\* AnomalyResult, with confidence held as its square; expected_range and
\* the texts of risk_implications are left out
AnomalyResult(type, severity, value, confidence, timestamp) ==
    [anomaly_type |-> type, severity |-> severity, value |-> value,
     confidence |-> confidence, timestamp |-> timestamp]

Column(rows, param) == [i \in 1..Len(rows) |-> rows[i][param]]
Squares(values) == [i \in 1..Len(values) |-> values[i] * values[i]]

\* n * sum(x^2) - sum(x)^2: n^2 times the variance of the values
Spread(values) ==
    Len(values) * SeqSum(Squares(values)) - SeqSum(values) * SeqSum(values)

\* the square of z_score = abs(value - hist_mean) / hist_std, where
\* hist_mean = S / n and hist_std^2 = Spread / (n (n - 1)); 0 when hist_std
\* is not above 0
z_score(value, n, S, spread) ==
    IF spread = 0 THEN <<0, 1>>
    ELSE Frac((n * value - S) * (n * value - S) * (n - 1), n * spread)

OutlierThreshold == <<25, 4>>      \* 2.5 squared
HighThreshold == <<49, 4>>         \* 3.5 squared
OutlierConfidenceCap == <<361, 400>>    \* 0.95 squared
RapidChangeConfidence == <<81, 100>>    \* 0.9 squared
MultivariateConfidence == <<9, 16>>     \* 0.75 squared

numeric_cols == <<"temperature", "pressure", "humidity", "wind_speed">>
OutlierType ==
    [temperature |-> "temperature_outlier", pressure |-> "pressure_outlier",
     humidity |-> "humidity_outlier", wind_speed |-> "wind_speed_outlier"]
RapidType ==
    [pressure |-> "rapid_pressure_change", temperature |-> "rapid_temperature_change",
     wind_speed |-> "rapid_wind_speed_change"]

\* the inner loop of _statistical_anomaly_detection for one parameter, the
\* historical values having length n, sum S and the given spread
RECURSIVE outliers_from(_, _, _, _, _)
outliers_from(rows, param, n, S, spread) ==
    IF rows = <<>> THEN <<>>
    ELSE LET value == Head(rows)[param]
             z     == z_score(value, n, S, spread)
         IN  (IF FracLess(OutlierThreshold, z)
              THEN <<AnomalyResult(OutlierType[param],
                                   IF FracLess(HighThreshold, z) THEN "HIGH"
                                                                 ELSE "MODERATE",
                                   value,
                                   FracMin(OutlierConfidenceCap,
                                           Frac(z[1], 16 * z[2])),
                                   Head(rows).timestamp)>>
              ELSE <<>>)
             \o outliers_from(Tail(rows), param, n, S, spread)

outliers(recent_data, historical_data, param) ==
    outliers_from(recent_data, param, Len(historical_data),
                  SeqSum(Column(historical_data, param)),
                  Spread(Column(historical_data, param)))

statistical_anomaly_detection(recent_data, historical_data) ==
    IF historical_data = <<>> THEN <<>>
    ELSE outliers(recent_data, historical_data, numeric_cols[1])
         \o outliers(recent_data, historical_data, numeric_cols[2])
         \o outliers(recent_data, historical_data, numeric_cols[3])
         \o outliers(recent_data, historical_data, numeric_cols[4])

\* sort_values('timestamp'): rows with equal timestamps keep their order
RECURSIVE InsertByTimestamp(_, _)
InsertByTimestamp(row, rows) ==
    IF rows = <<>> THEN <<row>>
    ELSE IF Head(rows).timestamp >= row.timestamp THEN <<row>> \o rows
    ELSE <<Head(rows)>> \o InsertByTimestamp(row, Tail(rows))
RECURSIVE sort_values(_)
sort_values(rows) ==
    IF rows = <<>> THEN <<>>
    ELSE InsertByTimestamp(Head(rows), sort_values(Tail(rows)))

rapid_change(recent_df, param, threshold) ==
    LET values  == Column(recent_df, param)
        changes == [i \in 1..(Len(values) - 1) |-> Abs(values[i + 1] - values[i])]
    IN  IF changes # <<>> /\ SeqMax(changes) > threshold
        THEN <<AnomalyResult(RapidType[param], "HIGH", SeqMax(changes),
                             RapidChangeConfidence,
                             recent_df[Len(recent_df)].timestamp)>>
        ELSE <<>>

time_series_anomaly_detection(recent_data, historical_data) ==
    IF Len(recent_data) < 3 THEN <<>>
    ELSE rapid_change(sort_values(recent_data), "pressure", 15)
         \o rapid_change(sort_values(recent_data), "temperature", 8)
         \o rapid_change(sort_values(recent_data), "wind_speed", 30)

\* StandardScaler fitted on the historical rows: per column, n^2 times the
\* variance
column_spreads(historical_data) ==
    [col \in {numeric_cols[i] : i \in 1..Len(numeric_cols)} |->
        Spread(Column(historical_data, col))]

\* the square of the gap of two rows in one column after scaling; a column
\* without variance is scaled by 1
scaled_gap(a, b, n, spreads, col) ==
    LET gap == (a[col] - b[col]) * (a[col] - b[col])
    IN  IF spreads[col] = 0 THEN <<gap, 1>> ELSE Frac(gap * n * n, spreads[col])

\* DBSCAN(eps=0.5): the scaled rows are at most 0.5 apart; rows with the
\* same readings are 0 apart
neighbours(a, b, n, spreads) ==
    LET d == FracAdd(FracAdd(scaled_gap(a, b, n, spreads, numeric_cols[1]),
                             scaled_gap(a, b, n, spreads, numeric_cols[2])),
                     FracAdd(scaled_gap(a, b, n, spreads, numeric_cols[3]),
                             scaled_gap(a, b, n, spreads, numeric_cols[4])))
    IN  IF \A i \in 1..Len(numeric_cols) : a[numeric_cols[i]] = b[numeric_cols[i]]
        THEN TRUE
        ELSE ~FracLess(<<1, 4>>, d)

\* DBSCAN(min_samples=3) over vstack([historical, recent]): a core point has
\* three points of the stack, itself included, in its neighbourhood
core_points(stacked, n, spreads) ==
    {i \in 1..Len(stacked) :
        Cardinality({j \in 1..Len(stacked) :
                        neighbours(stacked[i], stacked[j], n, spreads)}) >= 3}

\* label -1: neither a core point nor in the neighbourhood of one (a core
\* point is in its own neighbourhood)
RECURSIVE noise_anomalies(_, _, _, _, _)
noise_anomalies(rows, stacked, cores, n, spreads) ==
    IF rows = <<>> THEN <<>>
    ELSE (IF \A i \in cores : ~neighbours(Head(rows), stacked[i], n, spreads)
          THEN <<AnomalyResult("multivariate_anomaly", "MODERATE", 0,
                               MultivariateConfidence, Head(rows).timestamp)>>
          ELSE <<>>)
         \o noise_anomalies(Tail(rows), stacked, cores, n, spreads)

\* the scaler is fitted once: its spreads are a value before the labelling
multivariate_anomaly_detection(recent_data, historical_data) ==
    LET n       == Len(historical_data)
        stacked == historical_data \o recent_data
        labelled(spreads) ==
            noise_anomalies(recent_data, stacked,
                            core_points(stacked, n, spreads), n, spreads)
    IN  IF Len(recent_data) < 3 \/ Len(historical_data) < 10 THEN <<>>
        ELSE CHOOSE result \in {labelled(spreads) :
                                   spreads \in {column_spreads(historical_data)}} : TRUE

severity_order(severity) ==
    CASE severity = "CRITICAL" -> 3
      [] severity = "HIGH" -> 2
      [] severity = "MODERATE" -> 1
      [] OTHER -> 0

\* x sorts before y under key (severity_order, confidence), reverse=True
RanksAbove(x, y) ==
    \/ severity_order(x.severity) > severity_order(y.severity)
    \/ /\ severity_order(x.severity) = severity_order(y.severity)
       /\ FracLess(y.confidence, x.confidence)

\* sorted(..., reverse=True) is stable: equal keys keep their order
RECURSIVE InsertByRank(_, _)
InsertByRank(anomaly, q) ==
    IF q = <<>> THEN <<anomaly>>
    ELSE IF ~RanksAbove(Head(q), anomaly) THEN <<anomaly>> \o q
    ELSE <<Head(q)>> \o InsertByRank(anomaly, Tail(q))

RECURSIVE sorted_anomalies(_)
sorted_anomalies(q) ==
    IF q = <<>> THEN <<>>
    ELSE InsertByRank(Head(q), sorted_anomalies(Tail(q)))

is_duplicate(anomaly, existing) ==
    /\ anomaly.anomaly_type = existing.anomaly_type
    /\ Abs(anomaly.timestamp - existing.timestamp) < Hour

\* the loop of lines 622-631 over the sorted list, from the kept list so far
RECURSIVE keep_unique(_, _)
keep_unique(q, kept) ==
    IF q = <<>> THEN kept
    ELSE IF \E i \in 1..Len(kept) : is_duplicate(Head(q), kept[i])
         THEN keep_unique(Tail(q), kept)
         ELSE keep_unique(Tail(q), Append(kept, Head(q)))

AnomalyLimit == 10

\* a deduplication that leaves out the sort
DeduplicateUnsorted(q) ==
    LET kept == keep_unique(q, <<>>)
    IN  SubSeq(kept, 1, IF Len(kept) < AnomalyLimit THEN Len(kept) ELSE AnomalyLimit)

\* _deduplicate_anomalies
deduplicate_anomalies(q) ==
    LET kept == keep_unique(sorted_anomalies(q), <<>>)
    IN  SubSeq(kept, 1, IF Len(kept) < AnomalyLimit THEN Len(kept) ELSE AnomalyLimit)

BaselineDays == 30
MinRecent == 3
MinBaseline == 10

\* a guard that looks at the recent window only
TooFewRecent(recent_data, historical_data) == Len(recent_data) < MinRecent

\* line 153
insufficient_data(recent_data, historical_data) ==
    Len(recent_data) < MinRecent \/ Len(historical_data) < MinBaseline

DetectionPasses == <<"statistical", "time_series", "multivariate">>

\* the list anomalies of detect_anomalies at clock reading t (lines 157-169)
detected_anomalies(table, t, days) ==
    LET recent_data     == get_weather_data(table, t, days)
        historical_data == get_weather_data(table, t, BaselineDays)
    IN  IF insufficient_data(recent_data, historical_data) THEN <<>>
        ELSE statistical_anomaly_detection(recent_data, historical_data)
             \o time_series_anomaly_detection(recent_data, historical_data)
             \o multivariate_anomaly_detection(recent_data, historical_data)

\* every pass, whatever the windows hold
PassesRunAlways(table, t, days) == DetectionPasses

\* the detection passes detect_anomalies runs
passes_run(table, t, days) ==
    IF insufficient_data(get_weather_data(table, t, days),
                         get_weather_data(table, t, BaselineDays))
    THEN <<>> ELSE DetectionPasses

\* -------------------------------------------- weather analysis: patterns
\* dataclass WeatherPattern; confidence in hundredths, description and
\* indicators left out
WeatherPattern(type, confidence, risk_level, timeline) ==
    [pattern_type |-> type, confidence |-> confidence, risk_level |-> risk_level,
     timeline |-> timeline]

\* np.diff
Diff(values) == [i \in 1..(Len(values) - 1) |-> values[i + 1] - values[i]]

\* np.mean(values) > threshold, for whole-numbered values
MeanAbove(values, threshold) == SeqSum(values) > threshold * Len(values)

\* a rule returns None (the empty list here) or one pattern
analyze_pressure_patterns(df) ==
    IF Len(df) < 3 THEN <<>>
    ELSE IF SeqMin(Diff(Column(df, "pressure"))) < -10
         THEN <<WeatherPattern("rapid_pressure_drop", 90, "HIGH", "immediate")>>
         ELSE <<>>

analyze_temperature_trends(df) ==
    LET temps == Column(df, "temperature")
    IN  IF SeqMax(temps) > 35 \/ MeanAbove(temps, 32)
        THEN <<WeatherPattern("heat_stress", 80,
                              IF SeqMax(temps) < 38 THEN "MODERATE" ELSE "HIGH",
                              "current")>>
        ELSE <<>>

analyze_humidity_patterns(df) ==
    IF MeanAbove(Column(df, "humidity"), 85)
    THEN <<WeatherPattern("high_humidity", 70, "MODERATE", "short_term")>>
    ELSE <<>>

\* a wind rule that reports both levels
WindPatternsBoth(df) ==
    LET max_wind == SeqMax(Column(df, "wind_speed"))
    IN  (IF max_wind > 60
         THEN <<WeatherPattern("strong_winds", 95,
                               IF max_wind > 120 THEN "CRITICAL" ELSE "HIGH",
                               "immediate")>>
         ELSE <<>>)
        \o (IF max_wind > 40
            THEN <<WeatherPattern("moderate_winds", 80, "MODERATE", "current")>>
            ELSE <<>>)

analyze_wind_patterns(df) ==
    LET max_wind == SeqMax(Column(df, "wind_speed"))
    IN  IF max_wind > 60
        THEN <<WeatherPattern("strong_winds", 95,
                              IF max_wind > 120 THEN "CRITICAL" ELSE "HIGH",
                              "immediate")>>
        ELSE IF max_wind > 40
        THEN <<WeatherPattern("moderate_winds", 80, "MODERATE", "current")>>
        ELSE <<>>

storm_indicators(df) ==
    (IF SeqMin(Diff(Column(df, "pressure"))) < -5 THEN 1 ELSE 0)
    + (IF SeqMax(Diff(Column(df, "wind_speed"))) > 10 THEN 1 ELSE 0)
    + (IF MeanAbove(Column(df, "humidity"), 80) THEN 1 ELSE 0)

analyze_storm_development(df) ==
    IF Len(df) < 3 THEN <<>>
    ELSE IF storm_indicators(df) >= 2
         THEN <<WeatherPattern("storm_development", 85, "HIGH", "developing")>>
         ELSE <<>>

MinPatternRows == 5

\* a guard as low as the one of the rules
TooFewForRules(weather_data) == Len(weather_data) < 3

\* line 97
too_few_for_patterns(weather_data) == Len(weather_data) < MinPatternRows

\* analyze_weather_patterns(location, days) at clock reading t
analyze_weather_patterns(table, t, days) ==
    LET weather_data == get_weather_data(table, t, days)
        df == sort_values(weather_data)
    IN  IF too_few_for_patterns(weather_data) THEN <<>>
        ELSE analyze_pressure_patterns(df)
             \o analyze_temperature_trends(df)
             \o analyze_humidity_patterns(df)
             \o analyze_wind_patterns(df)
             \o analyze_storm_development(df)

\* ---------------------------------------------- weather analysis: trends
\* _calculate_linear_trend: the least-squares slope of the values over
\* x = 0, 1, ..., as the exact fraction <<numerator, denominator>> with a
\* positive denominator
linear_trend(values) ==
    LET n  == Len(values)
        x  == [i \in 1..n |-> i - 1]
        xy == [i \in 1..n |-> (i - 1) * values[i]]
    IN  IF n < 2 THEN <<0, 1>>
        ELSE <<n * SeqSum(xy) - SeqSum(x) * SeqSum(values),
               n * SeqSum(Squares(x)) - SeqSum(x) * SeqSum(x)>>

\* slope > threshold for the float linregress returns, the threshold being
\* the fraction <<a, b>>.  The float is within rounding of the exact slope,
\* so the comparison is the exact one unless the exact slope is the threshold
\* itself; then it holds only if rounding has left the float farther from zero
\* than the literal of the threshold.
Exceeds(slope, threshold, rounded_up) ==
    \/ slope[1] * threshold[2] > threshold[1] * slope[2]
    \/ slope[1] * threshold[2] = threshold[1] * slope[2] /\ rounded_up

Negated(slope) == <<0 - slope[1], slope[2]>>
Magnitude(slope) == <<Abs(slope[1]), slope[2]>>

\* a direction with another word for no change
DirectionUnchanged(slope, threshold, rounded_up) ==
    IF Exceeds(slope, threshold, rounded_up) THEN "increasing"
    ELSE IF Exceeds(Negated(slope), threshold, rounded_up) THEN "decreasing"
    ELSE "unchanged"

trend_direction(slope, threshold, rounded_up) ==
    IF Exceeds(slope, threshold, rounded_up) THEN "increasing"
    ELSE IF Exceeds(Negated(slope), threshold, rounded_up) THEN "decreasing"
    ELSE "stable"

trend_significance(slope, high, moderate, rounded_up) ==
    IF Exceeds(Magnitude(slope), high, rounded_up) THEN "high"
    ELSE IF Exceeds(Magnitude(slope), moderate, rounded_up) THEN "moderate"
    ELSE "low"

\* the thresholds of lines 258-284: direction, high and moderate significance
TrendFields == <<"temperature", "pressure", "humidity", "wind_speed">>
TrendThresholds ==
    [temperature |-> [direction |-> <<1, 10>>, high |-> <<1, 2>>, moderate |-> <<1, 5>>],
     pressure    |-> [direction |-> <<1, 10>>, high |-> <<2, 1>>, moderate |-> <<1, 1>>],
     humidity    |-> [direction |-> <<1, 2>>,  high |-> <<2, 1>>, moderate |-> <<1, 1>>],
     wind_speed  |-> [direction |-> <<1, 2>>,  high |-> <<5, 1>>, moderate |-> <<2, 1>>]]

\* one entry of the trend report; the rate is left out
field_trend(df, field, rounded_up) ==
    LET slope == linear_trend(Column(df, field))
        th    == TrendThresholds[field]
    IN  [direction    |-> trend_direction(slope, th.direction, rounded_up),
         significance |-> trend_significance(slope, th.high, th.moderate, rounded_up)]

risk_indicators(field_trends) ==
    (IF /\ field_trends.pressure.direction = "decreasing"
        /\ field_trends.pressure.significance = "high"
     THEN <<"Rapid pressure drop indicates potential storm development">>
     ELSE <<>>)
    \o (IF /\ field_trends.wind_speed.direction = "increasing"
           /\ field_trends.wind_speed.significance \in {"high", "moderate"}
        THEN <<"Increasing wind speeds suggest strengthening weather system">>
        ELSE <<>>)
    \o (IF /\ field_trends.temperature.direction = "increasing"
           /\ field_trends.temperature.significance = "high"
        THEN <<"Rising temperatures increase heat stress risk">>
        ELSE <<>>)
    \o (IF /\ field_trends.humidity.direction = "increasing"
           /\ field_trends.humidity.significance \in {"high", "moderate"}
        THEN <<"Increasing humidity suggests higher precipitation potential">>
        ELSE <<>>)

significant_trends(field_trends) ==
    Cardinality({i \in 1..Len(TrendFields) :
                    field_trends[TrendFields[i]].significance = "high"})

\* a verdict one step too eager
StabilityEager(count) ==
    IF count >= 2 THEN "UNSTABLE" ELSE IF count >= 1 THEN "CHANGING" ELSE "STABLE"

overall_stability(count) ==
    IF count >= 3 THEN "UNSTABLE" ELSE IF count >= 2 THEN "CHANGING" ELSE "STABLE"

get_trend_recommendation(stability, indicators) ==
    IF stability = "UNSTABLE"
    THEN "Enhanced monitoring recommended due to unstable weather patterns"
    ELSE IF stability = "CHANGING" /\ indicators # <<>>
    THEN "Monitor weather conditions closely as patterns suggest potential risks"
    ELSE IF indicators # <<>>
    THEN "Continue routine monitoring with attention to identified risk factors"
    ELSE "Weather patterns appear stable, maintain standard monitoring"

assess_overall_trends(field_trends) ==
    LET count     == significant_trends(field_trends)
        stability == overall_stability(count)
    IN  [overall_stability        |-> stability,
         risk_indicators          |-> risk_indicators(field_trends),
         significant_trends_count |-> count,
         recommendation           |->
             get_trend_recommendation(stability, risk_indicators(field_trends))]

MinTrendRows == 7
InsufficientTrendData == [error |-> "Insufficient data for trend analysis"]

\* a guard as low as the one of the pattern analysis
TooFewForTrendsAtFive(weather_data) == Len(weather_data) < 5

\* line 246
too_few_for_trends(weather_data) == Len(weather_data) < MinTrendRows

\* analyze_trends(location, days) at clock reading t; rounded_up[field] tells
\* whether rounding has left the slope of the field farther from zero than its
\* exact value
analyze_trends(table, t, days, rounded_up) ==
    LET weather_data == get_weather_data(table, t, days)
        df == sort_values(weather_data)
        field_trends == [f \in {TrendFields[i] : i \in 1..Len(TrendFields)} |->
                            field_trend(df, f, rounded_up[f])]
    IN  IF too_few_for_trends(weather_data) THEN InsufficientTrendData
        ELSE [temperature |-> field_trends.temperature,
              pressure    |-> field_trends.pressure,
              humidity    |-> field_trends.humidity,
              wind_speed  |-> field_trends.wind_speed,
              assessment  |-> assess_overall_trends(field_trends)]

\* ------------------------------------------------------------------ state
VARIABLES
    active_connections,  \* EventProcessor.active_connections: list of websockets
    event_handlers,      \* keys of EventProcessor.event_handlers
    event_history,       \* EventProcessor.event_history: list of events
    db_rows,             \* event ids committed to table realtime_events
    running,             \* the task that owns the event loop, or NoTask
    next_id,             \* next unused event id
    pc,                  \* per call of process_weather_update: position
    data,                \* per call: weather_data
    events,              \* per call: the local list events
    idx,                 \* per call: index of the loop "for event in events"
    cursor,              \* per call: index of the loop over active_connections
    disconnected,        \* per call: the local list disconnected
    target,              \* per call: the connection of the pending send_text
    returned,            \* per call: the returned list
    updates,             \* per caller: calls started
    sock,                \* per websocket: position of websocket_endpoint
    replay,              \* per websocket: recent_events still to send
    sent,                \* per websocket: send_text calls <<type, event id, succeeded>>
    persist_log,         \* _store_event_in_database calls <<event id, succeeded>>
    recorded,            \* events appended to event_history, in order
    broadcast_log,       \* event ids broadcast_event was called for
    handler_log,         \* event ids a registered handler was called for
    workflow_log,        \* event ids _trigger_emergency_analysis was called for
    escalation_failed,   \* event ids whose handler or emergency workflow raised
    now,                 \* datetime.now(timezone.utc), in half hours
    active_events,       \* the list the latest get_active_events call returned
    current_weather,     \* table current_weather: the rows of the location, oldest first
    weather_forecast,    \* table weather_forecasts: the rows of the location, by date
    risk,                \* the RiskScore the latest calculate_risk_scores call returned
    anomalies,           \* detect_anomalies: the local list anomalies
    unique_anomalies,    \* the list the latest detect_anomalies call returned
    passes,              \* the detection passes the latest detect_anomalies call ran
    detected,            \* whether a detect_anomalies call has returned
    patterns,            \* the list the latest analyze_weather_patterns call returned
    analyzed,            \* whether an analyze_weather_patterns call has returned
    trends,              \* the dict the latest analyze_trends call returned
    trend_data           \* analyze_trends: the local list weather_data of that call

procVars == <<pc, data, events, idx, cursor, disconnected, target, returned, updates>>
sockVars == <<sock, replay>>
logVars  == <<persist_log, recorded, broadcast_log, handler_log, workflow_log,
              escalation_failed>>
queryVars == <<active_events>>
reportVars == <<patterns, analyzed, trends, trend_data>>
analysisVars == <<current_weather, weather_forecast, risk, anomalies, unique_anomalies,
                  passes, detected, reportVars>>
vars == <<active_connections, event_handlers, event_history, db_rows, running,
          next_id, procVars, sockVars, sent, logVars, now, queryVars, analysisVars>>

\* ---------------------------------------------------------------- helpers
InSeq(x, q) == \E i \in 1..Len(q) : q[i] = x

Count(x, q) == Cardinality({i \in 1..Len(q) : q[i] = x})

\* list.remove(x): drops the first occurrence
RECURSIVE RemoveFirst(_, _)
RemoveFirst(q, x) ==
    IF q = <<>> THEN <<>>
    ELSE IF Head(q) = x THEN Tail(q)
    ELSE <<Head(q)>> \o RemoveFirst(Tail(q), x)

LastN(q, n) == IF Len(q) > n THEN SubSeq(q, Len(q) - n + 1, Len(q)) ELSE q

\* EventProcessor.remove_connection
remove_connection(conns, websocket) ==
    IF InSeq(websocket, conns) THEN RemoveFirst(conns, websocket) ELSE conns

\* broadcast_event, lines 481-483: remove every connection of disconnected
RECURSIVE remove_disconnected(_, _)
remove_disconnected(conns, disc) ==
    IF disc = <<>> THEN conns
    ELSE remove_disconnected(remove_connection(conns, Head(disc)), Tail(disc))

TrimHistoryKeepOldest(history) ==
    IF Len(history) > HistoryLimit THEN SubSeq(history, 1, HistoryLimit) ELSE history

\* broadcast_event, lines 452-453: keep the last 50 events
TrimHistory(history) ==
    IF Len(history) > HistoryLimit THEN LastN(history, HistoryLimit) ELSE history

StoreRaises(db_ok) == IF db_ok THEN "returned" ELSE "raised"

\* _store_event_in_database: the try/except turns a failing execute or
\* commit into a rollback and a normal return
store_event_in_database(db_ok) == "returned"

SendFailureIgnored(disc, connection, ok) == disc

\* broadcast_event, lines 474-479: a failing send_text is caught and the
\* connection noted in disconnected
after_send(disc, connection, ok) == IF ok THEN disc ELSE Append(disc, connection)

\* trigger_automated_response, lines 522-525: a raising handler is caught
handler_result(ok) == "returned"

EmergencyOnlyForEmergency(severity) == severity = EMERGENCY

\* trigger_automated_response, line 528
needs_emergency_analysis(severity) == severity \in {CRITICAL, EMERGENCY}

EmergencyAnalysisRaises(ok) == IF ok THEN "returned" ELSE "raised"

\* _trigger_emergency_analysis: the try/except catches a failing workflow
emergency_analysis_result(ok) == "returned"

CurrentEvent(p) == events[p][idx[p]]

\* no call of calculate_risk_scores has returned yet
NoResult == [risk_level |-> "none"]

\* ------------------------------------------------------------------- init
\* the state after EventProcessor.__init__, for the given callers and websockets
InitProcessor(callers, websockets) ==
    /\ active_connections = <<>>
    /\ event_handlers = {}
    /\ event_history = <<>>
    /\ db_rows = <<>>
    /\ running = NoTask
    /\ next_id = 1
    /\ pc = [p \in callers |-> "idle"]
    /\ data = [p \in callers |-> NoData]
    /\ events = [p \in callers |-> <<>>]
    /\ idx = [p \in callers |-> 0]
    /\ cursor = [p \in callers |-> 0]
    /\ disconnected = [p \in callers |-> <<>>]
    /\ target = [p \in callers |-> 0]
    /\ returned = [p \in callers |-> <<>>]
    /\ updates = [p \in callers |-> 0]
    /\ sock = [s \in websockets |-> "new"]
    /\ replay = [s \in websockets |-> <<>>]
    /\ sent = [s \in websockets |-> <<>>]
    /\ persist_log = <<>>
    /\ recorded = <<>>
    /\ broadcast_log = <<>>
    /\ handler_log = <<>>
    /\ workflow_log = <<>>
    /\ escalation_failed = {}
    /\ now = 0
    /\ active_events = <<>>

\* no pattern or trend report has been asked for yet
InitReports ==
    /\ patterns = <<>>
    /\ analyzed = FALSE
    /\ trends = NoResult
    /\ trend_data = <<>>

\* the analysis service over the given tables: nothing has been asked yet
InitAnalysis(current_tables, forecast_tables) ==
    /\ current_weather \in current_tables
    /\ weather_forecast \in forecast_tables
    /\ risk = NoResult
    /\ anomalies = <<>>
    /\ unique_anomalies = <<>>
    /\ passes = <<>>
    /\ detected = FALSE
    /\ InitReports

\* the processor over empty tables
InitOver(callers, websockets) ==
    /\ InitProcessor(callers, websockets)
    /\ InitAnalysis({<<>>}, {<<>>})

Init == InitOver(Procs, Sockets)

\* ----------------------------------------------- process_weather_update
\* The call starts: the three checks build the list events (lines 112-130).
\* max_events bounds the events ever created; the clock advances by drift
\* between the read for timestamp and the read for expires_at.
Begin(p, obs, max_events, drift) ==
    /\ running = NoTask
    /\ pc[p] \in {"idle", "done", "raised"}
    /\ next_id - 1 + Len(detect_events(obs, next_id, now, now + drift)) <= max_events
    /\ now + drift <= MaxClock
    /\ now' = now + drift
    /\ data' = [data EXCEPT ![p] = obs]
    /\ events' = [events EXCEPT ![p] = detect_events(obs, next_id, now, now + drift)]
    /\ next_id' = next_id + Len(detect_events(obs, next_id, now, now + drift))
    /\ idx' = [idx EXCEPT ![p] = 1]
    /\ returned' = [returned EXCEPT ![p] = <<>>]
    /\ updates' = [updates EXCEPT ![p] = @ + 1]
    /\ pc' = [pc EXCEPT ![p] = "loop"]
    /\ running' = p
    /\ UNCHANGED <<active_connections, event_handlers, event_history, db_rows,
                   cursor, disconnected, target, sockVars, sent, logVars,
                   queryVars, analysisVars>>

\* "for event in events" (line 133) and "return events" (line 138)
NextEvent(p) ==
    /\ running = p
    /\ pc[p] = "loop"
    /\ IF idx[p] > Len(events[p])
       THEN /\ pc' = [pc EXCEPT ![p] = "done"]
            /\ returned' = [returned EXCEPT ![p] = events[p]]
            /\ running' = NoTask
       ELSE /\ pc' = [pc EXCEPT ![p] = "broadcast"]
            /\ UNCHANGED <<returned, running>>
    /\ UNCHANGED <<active_connections, event_handlers, event_history, db_rows,
                   next_id, data, events, idx, cursor, disconnected, target,
                   updates, sockVars, sent, logVars,
                   now, queryVars, analysisVars>>

\* broadcast_event up to the loop over the connections (lines 446-472)
BroadcastEnter(p, db_ok) ==
    /\ running = p
    /\ pc[p] = "broadcast"
    /\ broadcast_log' = Append(broadcast_log, CurrentEvent(p).event_id)
    /\ IF active_connections = <<>>
       THEN /\ pc' = [pc EXCEPT ![p] = "respond"]
            /\ UNCHANGED <<event_history, db_rows, running, cursor, disconnected,
                           persist_log, recorded>>
       ELSE /\ event_history' = TrimHistory(Append(event_history, CurrentEvent(p)))
            /\ recorded' = Append(recorded, CurrentEvent(p))
            /\ persist_log' = Append(persist_log, <<CurrentEvent(p).event_id, db_ok>>)
            /\ db_rows' = IF db_ok THEN Append(db_rows, CurrentEvent(p).event_id)
                          ELSE db_rows
            /\ cursor' = [cursor EXCEPT ![p] = 1]
            /\ disconnected' = [disconnected EXCEPT ![p] = <<>>]
            /\ IF store_event_in_database(db_ok) = "returned"
               THEN /\ pc' = [pc EXCEPT ![p] = "send_call"]
                    /\ UNCHANGED running
               ELSE /\ pc' = [pc EXCEPT ![p] = "raised"]
                    /\ running' = NoTask
    /\ UNCHANGED <<active_connections, event_handlers, next_id, data, events, idx,
                   target, returned, updates, sockVars, sent, handler_log,
                   workflow_log, escalation_failed,
                   now, queryVars, analysisVars>>

\* "for connection in self.active_connections" (line 473): the list iterator
\* reads the live list at position cursor; past its end the loop is over and
\* the disconnected clients are removed (lines 481-483)
SendCall(p) ==
    /\ running = p
    /\ pc[p] = "send_call"
    /\ IF cursor[p] <= Len(active_connections)
       THEN /\ target' = [target EXCEPT ![p] = active_connections[cursor[p]]]
            /\ pc' = [pc EXCEPT ![p] = "send_wait"]
            /\ running' = NoTask
            /\ UNCHANGED active_connections
       ELSE /\ active_connections' =
                   remove_disconnected(active_connections, disconnected[p])
            /\ pc' = [pc EXCEPT ![p] = "respond"]
            /\ UNCHANGED <<target, running>>
    /\ UNCHANGED <<event_handlers, event_history, db_rows, next_id, data, events,
                   idx, cursor, disconnected, returned, updates, sockVars, sent,
                   logVars,
                   now, queryVars, analysisVars>>

\* "await connection.send_text" returns or raises (lines 474-479)
SendReturn(p, ok) ==
    /\ running = NoTask
    /\ pc[p] = "send_wait"
    /\ sent' = [sent EXCEPT ![target[p]] =
                   Append(@, <<"real_time_alert", CurrentEvent(p).event_id, ok>>)]
    /\ disconnected' = [disconnected EXCEPT ![p] = after_send(@, target[p], ok)]
    /\ cursor' = [cursor EXCEPT ![p] = @ + 1]
    /\ pc' = [pc EXCEPT ![p] = "send_call"]
    /\ running' = p
    /\ UNCHANGED <<active_connections, event_handlers, event_history, db_rows,
                   next_id, data, events, idx, target, returned, updates,
                   sockVars, logVars,
                   now, queryVars, analysisVars>>

\* trigger_automated_response, lines 521-523: the registered handler is called
Respond(p) ==
    /\ running = p
    /\ pc[p] = "respond"
    /\ IF CurrentEvent(p).event_type \in event_handlers
       THEN /\ handler_log' = Append(handler_log, CurrentEvent(p).event_id)
            /\ pc' = [pc EXCEPT ![p] = "handler_wait"]
            /\ running' = NoTask
       ELSE /\ pc' = [pc EXCEPT ![p] = "check_severity"]
            /\ UNCHANGED <<handler_log, running>>
    /\ UNCHANGED <<active_connections, event_handlers, event_history, db_rows,
                   next_id, data, events, idx, cursor, disconnected, target,
                   returned, updates, sockVars, sent, persist_log, recorded,
                   broadcast_log, workflow_log, escalation_failed,
                   now, queryVars, analysisVars>>

\* the handler returns or raises (lines 523-525)
HandlerReturn(p, ok) ==
    /\ running = NoTask
    /\ pc[p] = "handler_wait"
    /\ IF handler_result(ok) = "returned"
       THEN /\ pc' = [pc EXCEPT ![p] = "check_severity"]
            /\ running' = p
       ELSE /\ pc' = [pc EXCEPT ![p] = "raised"]
            /\ UNCHANGED running
    /\ escalation_failed' = IF ok THEN escalation_failed
                            ELSE escalation_failed \cup {CurrentEvent(p).event_id}
    /\ UNCHANGED <<active_connections, event_handlers, event_history, db_rows,
                   next_id, data, events, idx, cursor, disconnected, target,
                   returned, updates, sockVars, sent, persist_log, recorded,
                   broadcast_log, handler_log, workflow_log,
                   now, queryVars, analysisVars>>

\* trigger_automated_response, lines 528-529, and the call of
\* execute_emergency_workflow in _trigger_emergency_analysis
CheckSeverity(p) ==
    /\ running = p
    /\ pc[p] = "check_severity"
    /\ IF needs_emergency_analysis(CurrentEvent(p).severity)
       THEN /\ workflow_log' = Append(workflow_log, CurrentEvent(p).event_id)
            /\ pc' = [pc EXCEPT ![p] = "workflow_wait"]
            /\ running' = NoTask
            /\ UNCHANGED idx
       ELSE /\ idx' = [idx EXCEPT ![p] = @ + 1]
            /\ pc' = [pc EXCEPT ![p] = "loop"]
            /\ UNCHANGED <<workflow_log, running>>
    /\ UNCHANGED <<active_connections, event_handlers, event_history, db_rows,
                   next_id, data, events, cursor, disconnected, target, returned,
                   updates, sockVars, sent, persist_log, recorded, broadcast_log,
                   handler_log, escalation_failed,
                   now, queryVars, analysisVars>>

\* execute_emergency_workflow returns or raises (lines 540-548)
WorkflowReturn(p, ok) ==
    /\ running = NoTask
    /\ pc[p] = "workflow_wait"
    /\ IF emergency_analysis_result(ok) = "returned"
       THEN /\ idx' = [idx EXCEPT ![p] = @ + 1]
            /\ pc' = [pc EXCEPT ![p] = "loop"]
            /\ running' = p
       ELSE /\ pc' = [pc EXCEPT ![p] = "raised"]
            /\ UNCHANGED <<idx, running>>
    /\ escalation_failed' = IF ok THEN escalation_failed
                            ELSE escalation_failed \cup {CurrentEvent(p).event_id}
    /\ UNCHANGED <<active_connections, event_handlers, event_history, db_rows,
                   next_id, data, events, cursor, disconnected, target, returned,
                   updates, sockVars, sent, persist_log, recorded, broadcast_log,
                   handler_log, workflow_log,
                   now, queryVars, analysisVars>>

\* ----------------------------------------------------- websocket_endpoint
\* The welcome message and the replies to client messages do not touch the
\* processor's state and are left out of sent.
EventIds(q) == [i \in 1..Len(q) |-> q[i].event_id]

\* add_connection after accept: the websocket joins the list and
\* _send_recent_events takes the last 5 events of the history (lines 75-89)
AddConnection(s) ==
    /\ running = NoTask
    /\ sock[s] = "new"
    /\ active_connections' = Append(active_connections, s)
    /\ replay' = [replay EXCEPT ![s] = EventIds(LastN(event_history, RecentLimit))]
    /\ sock' = [sock EXCEPT ![s] =
                   IF event_history = <<>> THEN "open" ELSE "replaying"]
    /\ UNCHANGED <<event_handlers, event_history, db_rows, running, next_id,
                   procVars, sent, logVars,
                   now, queryVars, analysisVars>>

\* _send_recent_events: one send_text returns, or raises and ends the loop
\* (lines 91-107)
ReplaySend(s, ok) ==
    /\ running = NoTask
    /\ sock[s] = "replaying"
    /\ sent' = [sent EXCEPT ![s] = Append(@, <<"recent_event", Head(replay[s]), ok>>)]
    /\ replay' = [replay EXCEPT ![s] = IF ok THEN Tail(@) ELSE <<>>]
    /\ sock' = [sock EXCEPT ![s] =
                   IF ok /\ Tail(replay[s]) # <<>> THEN "replaying" ELSE "open"]
    /\ UNCHANGED <<active_connections, event_handlers, event_history, db_rows,
                   running, next_id, procVars, logVars,
                   now, queryVars, analysisVars>>

\* websocket_endpoint leaves its receive loop: manager.disconnect calls
\* remove_connection (realtime.py lines 85-93)
Disconnect(s) ==
    /\ running = NoTask
    /\ sock[s] = "open"
    /\ active_connections' = remove_connection(active_connections, s)
    /\ sock' = [sock EXCEPT ![s] = "closed"]
    /\ UNCHANGED <<event_handlers, event_history, db_rows, running, next_id,
                   procVars, replay, sent, logVars,
                   now, queryVars, analysisVars>>

\* EventProcessor.register_handler
RegisterHandler(event_type) ==
    /\ running = NoTask
    /\ event_type \notin event_handlers
    /\ event_handlers' = event_handlers \cup {event_type}
    /\ UNCHANGED <<active_connections, event_history, db_rows, running, next_id,
                   procVars, sockVars, sent, logVars,
                   now, queryVars, analysisVars>>

\* the clock moves on; a reading matters only to the task that takes it, so
\* time passes while every task is suspended
Tick ==
    /\ running = NoTask
    /\ now < MaxClock
    /\ now' = now + 1
    /\ UNCHANGED <<active_connections, event_handlers, event_history, db_rows,
                   running, next_id, procVars, sockVars, sent, logVars, queryVars,
                   analysisVars>>

ActiveAtDeadline(history, t) ==
    SelectSeq(history, LAMBDA event : event.expires_at = NoExpiry \/ event.expires_at >= t)

\* get_active_events (lines 550-567): the events of the history that have no
\* expiry or expire after the clock reading t
get_active_events(history, t) ==
    SelectSeq(history, LAMBDA event : event.expires_at = NoExpiry \/ event.expires_at > t)

\* GET /realtime/active-events and the client message 'get_active_events' call
\* get_active_events, which runs without an await
GetActiveEvents ==
    /\ running = NoTask
    /\ active_events' = get_active_events(event_history, now)
    /\ UNCHANGED <<active_connections, event_handlers, event_history, db_rows,
                   running, next_id, procVars, sockVars, sent, logVars, now,
                   analysisVars>>

\* calculate_risk_scores over the rows of the location, as the risk routes call it.
\* The queries of one call run without an await of another task's writes.
CalculateRiskScores ==
    /\ risk' = calculate_risk_scores(current_weather, weather_forecast, now)
    /\ UNCHANGED <<active_connections, event_handlers, event_history, db_rows,
                   running, next_id, procVars, sockVars, sent, logVars, now,
                   queryVars, current_weather, weather_forecast, anomalies,
                   unique_anomalies, passes, detected, reportVars>>

\* the last step of detect_anomalies (lines 171-175): _deduplicate_anomalies
\* on the list the three passes have filled
Deduplicate ==
    /\ ~detected
    /\ unique_anomalies' = deduplicate_anomalies(anomalies)
    /\ detected' = TRUE
    /\ UNCHANGED <<active_connections, event_handlers, event_history, db_rows,
                   running, next_id, procVars, sockVars, sent, logVars, now,
                   queryVars, current_weather, weather_forecast, risk, anomalies,
                   passes, reportVars>>

\* detect_anomalies(location, days) over the rows of the location
DetectAnomalies(days) ==
    /\ anomalies' = detected_anomalies(current_weather, now, days)
    /\ unique_anomalies' = deduplicate_anomalies(anomalies')
    /\ passes' = passes_run(current_weather, now, days)
    /\ detected' = TRUE
    /\ UNCHANGED <<active_connections, event_handlers, event_history, db_rows,
                   running, next_id, procVars, sockVars, sent, logVars, now,
                   queryVars, current_weather, weather_forecast, risk, reportVars>>

\* analyze_weather_patterns(location, days) over the rows of the location
AnalyzeWeatherPatterns(days) ==
    /\ patterns' = analyze_weather_patterns(current_weather, now, days)
    /\ analyzed' = TRUE
    /\ UNCHANGED <<active_connections, event_handlers, event_history, db_rows,
                   running, next_id, procVars, sockVars, sent, logVars, now,
                   queryVars, current_weather, weather_forecast, risk, anomalies,
                   unique_anomalies, passes, detected, trends, trend_data>>

\* analyze_trends(location, days) over the rows of the location
AnalyzeTrends(days) ==
    /\ trend_data' = get_weather_data(current_weather, now, days)
    /\ \E rounded_up \in [{TrendFields[i] : i \in 1..Len(TrendFields)} -> BOOLEAN] :
          trends' = analyze_trends(current_weather, now, days, rounded_up)
    /\ UNCHANGED <<active_connections, event_handlers, event_history, db_rows,
                   running, next_id, procVars, sockVars, sent, logVars, now,
                   queryVars, current_weather, weather_forecast, risk, anomalies,
                   unique_anomalies, passes, detected, patterns, analyzed>>

\* ----------------------------------------------------------------- inputs
\* wind 100 km/h and 36 degrees C at 50 % humidity: a critical typhoon event
\* followed by a heat warning
ObsStormHot == Observation(100, 1010, 36, 50)
\* wind 70 km/h: one typhoon warning
ObsWindy == Observation(70, 1010, 25, 50)

Observations == {ObsStormHot, ObsWindy}

\* one observation for each set of hazards: none, typhoon, heat, flood,
\* typhoon and heat, typhoon and flood, heat and flood, all three
HazardSamples ==
    {Observation(0, 1013, 25, 50), Observation(70, 1010, 25, 50),
     Observation(0, 1013, 36, 50), Observation(0, 1004, 25, 95),
     Observation(70, 1010, 36, 50), Observation(70, 1004, 25, 95),
     Observation(0, 1004, 36, 95), Observation(70, 1004, 36, 95)}

\* event types a handler is registered for
HandledTypes == {"typhoon_warning"}

\* --------------------------------------------------------- specifications
\* The websockets are interchangeable: they are created in the order of
\* their numbers.
InOrder(s) == IF s = 1 THEN TRUE ELSE sock[s - 1] # "new"

Step(p) ==
    \/ NextEvent(p)
    \/ \E db_ok \in BOOLEAN : BroadcastEnter(p, db_ok)
    \/ SendCall(p)
    \/ \E ok \in BOOLEAN : SendReturn(p, ok)
    \/ Respond(p)
    \/ \E ok \in BOOLEAN : HandlerReturn(p, ok)
    \/ CheckSeverity(p)
    \/ \E ok \in BOOLEAN : WorkflowReturn(p, ok)

Next ==
    \/ \E p \in Procs, obs \in Observations : Begin(p, obs, MaxEvents, 0)
    \/ \E p \in Procs : Step(p)
    \/ \E s \in Sockets : InOrder(s) /\ AddConnection(s)
    \/ \E s \in Sockets, ok \in BOOLEAN : ReplaySend(s, ok)
    \/ \E s \in Sockets : Disconnect(s)
    \/ \E t \in HandledTypes : RegisterHandler(t)

Spec == Init /\ [][Next]_vars

\* Threshold grids: each value sits on or next to a cut point of a ladder.
WindGrid == {0, 59, 60, 89, 90, 100, 119, 120}
PressureGrid == {1013, 1005, 1004, 1003, 995, 994, 993, 988, 984, 983, 980}
TempGrid == {25, 26, 27, 30, 31, 34, 35, 36, 39, 40, 43, 44, 45, 46}
HumidityGrid == {0, 10, 50, 60, 80, 81, 85, 86, 90, 91, 95, 100}

ObsGrid == {Observation(w, pr, t, h) :
               w \in WindGrid, pr \in PressureGrid, t \in TempGrid, h \in HumidityGrid}

\* The three hazard checks on every observation of the grid.
DetectNext == \E obs \in ObsGrid : Begin(1, obs, 3, 0)

SpecDetect == InitOver({1}, {1}) /\ [][DetectNext]_vars

\* One caller; websockets connect and disconnect only while no call of
\* process_weather_update is in flight, so nothing but the broadcast itself
\* touches active_connections during a broadcast.
Quiet == \A p \in DOMAIN pc : pc[p] \in {"idle", "done", "raised"}

SoloNext ==
    \/ Begin(1, ObsStormHot, MaxEvents, 0)
    \/ NextEvent(1)
    \/ \E db_ok \in BOOLEAN : BroadcastEnter(1, db_ok)
    \/ SendCall(1)
    \/ \E ok \in BOOLEAN : SendReturn(1, ok)
    \/ Respond(1)
    \/ \E ok \in BOOLEAN : HandlerReturn(1, ok)
    \/ CheckSeverity(1)
    \/ \E ok \in BOOLEAN : WorkflowReturn(1, ok)
    \/ \E s \in Sockets :
          Quiet /\ InOrder(s) /\ AddConnection(s)
    \/ \E s \in Sockets, ok \in BOOLEAN : Quiet /\ ReplaySend(s, ok)
    \/ \E s \in Sockets : Quiet /\ Disconnect(s)
    \/ \E t \in HandledTypes : Quiet /\ RegisterHandler(t)

SpecSolo == InitOver({1}, Sockets) /\ [][SoloNext]_vars

\* One caller sends typhoon warnings while subscribers come and go:
\* websockets connect between two calls and disconnect at any time, also
\* while a broadcast awaits a send.
ChurnNext ==
    \/ Begin(1, ObsWindy, MaxEvents, 0)
    \/ NextEvent(1)
    \/ BroadcastEnter(1, TRUE)
    \/ SendCall(1)
    \/ \E ok \in BOOLEAN : SendReturn(1, ok)
    \/ Respond(1)
    \/ CheckSeverity(1)
    \/ \E s \in Sockets :
          Quiet /\ InOrder(s) /\ AddConnection(s)
    \/ \E s \in Sockets, ok \in BOOLEAN : Quiet /\ ReplaySend(s, ok)
    \/ \E s \in Sockets : Disconnect(s)

SpecChurn == InitOver({1}, Sockets) /\ [][ChurnNext]_vars

\* A long run that fills the history: one websocket stays connected and every
\* send, store and workflow succeeds.  Caller 1 sends typhoon warnings one
\* after another; once the history is one short of full, caller 2 runs up to
\* MaxSideUpdates two-event calls concurrently.
HistNext ==
    \/ /\ active_connections # <<>>
       /\ Begin(1, ObsWindy, MaxHistEvents, 0)
    \/ /\ Len(event_history) >= HistoryLimit - 1
       /\ updates[2] < MaxSideUpdates
       /\ Begin(2, ObsStormHot, MaxHistEvents, 0)
    \/ \E p \in {1, 2} : NextEvent(p)
    \/ \E p \in {1, 2} : BroadcastEnter(p, TRUE)
    \/ \E p \in {1, 2} : SendCall(p)
    \/ \E p \in {1, 2} : SendReturn(p, TRUE)
    \/ \E p \in {1, 2} : Respond(p)
    \/ \E p \in {1, 2} : CheckSeverity(p)
    \/ WorkflowReturn(2, TRUE)
    \/ AddConnection(1)

SpecHistory == InitOver({1, 2}, {1}) /\ [][HistNext]_vars

\* One caller and one websocket under a running clock: events are created,
\* recorded and queried at every time up to MaxClock; every send and store
\* succeeds.
WatchNext ==
    \/ \E drift \in 0..MaxDrift : Begin(1, ObsWindy, MaxWatchEvents, drift)
    \/ NextEvent(1)
    \/ BroadcastEnter(1, TRUE)
    \/ SendCall(1)
    \/ SendReturn(1, TRUE)
    \/ Respond(1)
    \/ CheckSeverity(1)
    \/ AddConnection(1)
    \/ Tick
    \/ GetActiveEvents

SpecWatch == InitOver({1}, {1}) /\ [][WatchNext]_vars

\* One caller makes up to MaxRepeatUpdates calls one after another, each with
\* any of the hazard samples or with a windy observation that carries no
\* location; nobody is connected, every workflow succeeds.
RepeatNext ==
    \/ \E obs \in HazardSamples \cup {Unlocated(ObsWindy)} :
          /\ updates[1] < MaxRepeatUpdates
          /\ Begin(1, obs, 3 * MaxRepeatUpdates, 0)
    \/ NextEvent(1)
    \/ BroadcastEnter(1, TRUE)
    \/ Respond(1)
    \/ CheckSeverity(1)
    \/ WorkflowReturn(1, TRUE)

SpecRepeat == InitOver({1}, {1}) /\ [][RepeatNext]_vars

\* Rows of current weather read now: a calm row, rows that differ from it in
\* one reading placed on or next to a cut point of a ladder, a row of a storm
\* at its height, and a storm row older than the one-day window.
CalmCurrent == CurrentRow(0, 25, 60, 1010, 10, "Clear", 10)

CurrentGrid ==
    {CalmCurrent}
    \cup {[CalmCurrent EXCEPT !.wind_speed = w] : w \in {40, 90, 120}}
    \cup {[CalmCurrent EXCEPT !.temperature = t] : t \in {32, 38, 42}}
    \cup {[CalmCurrent EXCEPT !.humidity = h] : h \in {0, 80, 90, 95}}
    \cup {[CalmCurrent EXCEPT !.pressure = pr] : pr \in {1020, 1035}}
    \cup {[CalmCurrent EXCEPT !.visibility = v] : v \in {1, 4}}
    \cup {[CalmCurrent EXCEPT !.weather_condition = "Thunderstorm"]}
    \cup {CurrentRow(0, 43, 95, 1010, 120, "Thunderstorm", 1),
          CurrentRow(0 - Day - 1, 43, 95, 980, 120, "Thunderstorm", 1)}

\* Rows of the forecast for the next hour, built the same way, and a storm
\* row dated after the 24-hour window.
CalmForecast == ForecastRow(Hour, 25, 60, 1010, 10, "Clear", 0)

ForecastGrid ==
    {CalmForecast}
    \cup {[CalmForecast EXCEPT !.precipitation_probability = pp] :
             pp \in {50, 70, 90}}
    \cup {[CalmForecast EXCEPT !.pressure = pr] : pr \in {1000, 995, 985, 1025}}
    \cup {[CalmForecast EXCEPT !.humidity = h] : h \in {0, 95}}
    \cup {[CalmForecast EXCEPT !.wind_speed = 120],
          [CalmForecast EXCEPT !.temperature = 42],
          [CalmForecast EXCEPT !.weather_condition = "Snow"]}
    \cup {ForecastRow(Hour, 25, 60, 980, 10, "Clear", 90),
          ForecastRow(Hour, 43, 95, 980, 120, "Thunderstorm", 90),
          ForecastRow(25 * Hour, 43, 95, 980, 120, "Thunderstorm", 90)}

\* the tables of at most n rows of the grid, in the order of their timestamps
TablesOver(grid, n) ==
    {table \in UNION {[1..k -> grid] : k \in 0..n} : Sorted(table)}

\* The risk scorer over every pair of tables of at most MaxRiskRows rows
\* together.
RiskNext == CalculateRiskScores

SpecRisk ==
    /\ InitProcessor({1}, {1})
    /\ \E k \in 0..MaxRiskRows :
          InitAnalysis(TablesOver(CurrentGrid, k),
                       TablesOver(ForecastGrid, MaxRiskRows - k))
    /\ [][RiskNext]_vars

\* Series of observations for the anomaly detector: an even number of calm
\* readings, whose breeze alternates between 10 and 12 km/h, followed by a few
\* readings that are calm, hot or gusty, taken at a fixed spacing with the last
\* one read now; and series of identical calm readings.
CalmReading == [temperature |-> 25, humidity |-> 60, pressure |-> 1010, wind_speed |-> 10]
BreezyReading == [CalmReading EXCEPT !.wind_speed = 12]
HotReading == [CalmReading EXCEPT !.temperature = 50]
GustyReading == [CalmReading EXCEPT !.wind_speed = 50]
Readings == {CalmReading, HotReading, GustyReading}

\* half an hour, an hour, a day
Spacings == {1, Hour, Day}

Series(readings, spacing) ==
    [i \in 1..Len(readings) |->
        CurrentRow(0 - (Len(readings) - i) * spacing, readings[i].temperature,
                   readings[i].humidity, readings[i].pressure,
                   readings[i].wind_speed, "Clear", 10)]

AnomalyTables ==
    {Series([i \in 1..k |-> IF i % 2 = 1 THEN CalmReading ELSE BreezyReading] \o tail,
            spacing) :
        k \in {j \in 0..MaxCalmRows : j % 2 = 0},
        tail \in UNION {[1..n -> Readings] : n \in 0..MaxTailRows},
        spacing \in Spacings}
    \cup {Series([i \in 1..n |-> CalmReading], spacing) :
            n \in 0..MaxCalmRows, spacing \in Spacings}

\* the values of days the callers pass
AnalysisDays == {1, 3}

\* The anomaly detector over every series.
AnomalyNext == \E days \in AnalysisDays : DetectAnomalies(days)

SpecAnomaly ==
    /\ InitProcessor({1}, {1})
    /\ InitAnalysis(AnomalyTables, {<<>>})
    /\ [][AnomalyNext]_vars

\* Series of observations for the pattern rules: calm or humid readings
\* followed by a few readings of every kind, an hour or a day apart.
HumidReading == [CalmReading EXCEPT !.humidity = 90]
WarmReading == [CalmReading EXCEPT !.temperature = 36]
FallingReading == [CalmReading EXCEPT !.pressure = 1003]
LowReading == [CalmReading EXCEPT !.pressure = 995]
GaleReading == [CalmReading EXCEPT !.wind_speed = 70]
TyphoonReading ==
    [temperature |-> 39, humidity |-> 95, pressure |-> 985, wind_speed |-> 130]
PatternReadings ==
    {CalmReading, HumidReading, WarmReading, FallingReading, LowReading,
     GustyReading, GaleReading, TyphoonReading}

PatternTables ==
    {Series([i \in 1..k |-> base] \o tail, spacing) :
        k \in 0..MaxCalmRows,
        base \in {CalmReading, HumidReading},
        tail \in UNION {[1..n -> PatternReadings] : n \in 0..MaxTailRows},
        spacing \in {Hour, Day}}

\* the values of days the callers pass
PatternDays == {1, 7}

\* The pattern analysis over every series.
PatternNext == \E days \in PatternDays : AnalyzeWeatherPatterns(days)

SpecPattern ==
    /\ InitProcessor({1}, {1})
    /\ InitAnalysis(PatternTables, {<<>>})
    /\ [][PatternNext]_vars

\* Series of observations for the trend analysis: every field keeps to one
\* course, in steps of its own size, over at most MaxTrendRows observations
\* an hour or two days apart.  Humidity and wind keep to three courses each.
Courses == {"flat", "creeping", "climbing", "rising", "falling"}
CourseAt(course, i) ==
    CASE course = "flat"     -> 0
      [] course = "creeping" -> i \div 3
      [] course = "climbing" -> i \div 2
      [] course = "rising"   -> i
      [] course = "falling"  -> 0 - i

TrendTables ==
    {Series([i \in 1..n |->
                [temperature |-> 25 + CourseAt(ct, i),
                 pressure    |-> 1010 + 3 * CourseAt(cp, i),
                 humidity    |-> 60 + 3 * CourseAt(ch, i),
                 wind_speed  |-> 60 + 6 * CourseAt(cw, i)]], spacing) :
        n \in 0..MaxTrendRows, ct \in Courses, cp \in Courses,
        ch \in {"flat", "rising", "falling"}, cw \in {"flat", "creeping", "rising"},
        spacing \in {Hour, 2 * Day}}

\* the values of days the callers pass
TrendDays == {7, 14}

\* The trend analysis over every series.
TrendNext == \E days \in TrendDays : AnalyzeTrends(days)

SpecTrend ==
    /\ InitProcessor({1}, {1})
    /\ InitAnalysis(TrendTables, {<<>>})
    /\ [][TrendNext]_vars

\* Candidates in the order the three passes append them: the outliers of
\* temperature, pressure and wind speed with the newest observation first,
\* the rapid changes, the multivariate anomalies.  Timestamps are in half
\* hours before now.
CandidatePool ==
    <<AnomalyResult("temperature_outlier", "HIGH", 50, OutlierConfidenceCap, 0),
      AnomalyResult("temperature_outlier", "MODERATE", 45, <<25, 44>>, 0 - 1),
      AnomalyResult("temperature_outlier", "MODERATE", 45, <<25, 44>>, 0 - 2),
      AnomalyResult("temperature_outlier", "HIGH", 50, OutlierConfidenceCap, 0 - 4),
      AnomalyResult("pressure_outlier", "MODERATE", 980, <<1, 2>>, 0),
      AnomalyResult("pressure_outlier", "HIGH", 970, RapidChangeConfidence, 0 - 2),
      AnomalyResult("wind_speed_outlier", "MODERATE", 50, MultivariateConfidence, 0),
      AnomalyResult("rapid_pressure_change", "HIGH", 30, RapidChangeConfidence, 0),
      AnomalyResult("rapid_temperature_change", "HIGH", 25, RapidChangeConfidence, 0),
      AnomalyResult("rapid_wind_speed_change", "HIGH", 40, RapidChangeConfidence, 0),
      AnomalyResult("multivariate_anomaly", "MODERATE", 0, MultivariateConfidence, 0),
      AnomalyResult("multivariate_anomaly", "MODERATE", 0, MultivariateConfidence, 0 - 1),
      AnomalyResult("multivariate_anomaly", "MODERATE", 0, MultivariateConfidence, 0 - 2),
      AnomalyResult("multivariate_anomaly", "MODERATE", 0, MultivariateConfidence, 0 - 4),
      AnomalyResult("multivariate_anomaly", "MODERATE", 0, MultivariateConfidence, 0 - 6)>>

\* every list made of candidates among the first MaxCandidates, in pool order
CandidateLists ==
    LET pool == SubSeq(CandidatePool, 1,
                       IF MaxCandidates < Len(CandidatePool)
                       THEN MaxCandidates ELSE Len(CandidatePool))
    IN  {SelectSeq(pool, LAMBDA c : c \in chosen) : chosen \in SUBSET Members(pool)}

\* The deduplication over every list of candidates: detect_anomalies has run
\* its three passes and is about to deduplicate.
DedupNext == Deduplicate

\* detect_anomalies after its three passes, before the deduplication
InitCandidates(candidate_lists) ==
    /\ current_weather = <<>>
    /\ weather_forecast = <<>>
    /\ risk = NoResult
    /\ anomalies \in candidate_lists
    /\ unique_anomalies = <<>>
    /\ passes = DetectionPasses
    /\ detected = FALSE
    /\ InitReports

SpecDedup ==
    /\ InitProcessor({1}, {1})
    /\ InitCandidates(CandidateLists)
    /\ [][DedupNext]_vars

\* ------------------------------------------------------------ claim terms
Calls == DOMAIN pc
Websockets == DOMAIN sock

EventsOfType(q, type) == SelectSeq(q, LAMBDA e : e.event_type = type)

\* a three-step ladder warning < critical < emergency as a claim states it
Ladder(x, warning, critical, emergency) ==
    IF x >= emergency THEN EMERGENCY
    ELSE IF x >= critical THEN CRITICAL
    ELSE IF x >= warning THEN WARNING
    ELSE NoSeverity

\* the call has built its list of events
Detected(p) == pc[p] # "idle"

PersistAttempted(id) == \E j \in 1..Len(persist_log) : persist_log[j][1] = id
PersistFailed(id) == \E j \in 1..Len(persist_log) : persist_log[j] = <<id, FALSE>>

\* send_text calls that carried event id to websocket s as a real_time_alert
Alerts(s, id) == {j \in 1..Len(sent[s]) :
                    sent[s][j][1] = "real_time_alert" /\ sent[s][j][2] = id}
AlertDelivered(s, id) == \E j \in Alerts(s, id) : sent[s][j][3]
AlertFailed(s, id) == \E j \in Alerts(s, id) : ~sent[s][j][3]

\* ---------------------------------------------------------------- C1
\* C1: every event returned by process_weather_update has been appended to
\* event_history and a persistence attempt has been made for it, whether or
\* not a subscriber is connected.
C1_ReturnedEventsRecorded ==
    \A p \in Calls : pc[p] = "done" =>
        \A i \in 1..Len(returned[p]) :
            /\ InSeq(returned[p][i], recorded)
            /\ PersistAttempted(returned[p][i].event_id)

\* ---------------------------------------------------------------- C2
\* C2: the typhoon event's severity is the higher of the wind ladder
\* (60/90/120 km/h) and the pressure-drop ladder (10/20/30 hPa below
\* 1013.25); an event exists iff one of them triggers.
C2_TyphoonHigherLadderWins ==
    \A p \in Calls : Detected(p) =>
        LET wind == Ladder(data[p].wind_speed, 60, 90, 120)
            drop == Ladder(101325 - 100 * data[p].pressure, 1000, 2000, 3000)
            want == SeverityMax(wind, drop)
            got  == EventsOfType(events[p], "typhoon_warning")
        IN  /\ Len(got) = (IF want = NoSeverity THEN 0 ELSE 1)
            /\ Len(got) = 1 => got[1].severity = want

\* ---------------------------------------------------------------- C3
\* C3: the heat event's severity is the higher of the heat-index ladder
\* (40/52/55) and the raw-temperature ladder (35/40/45); an event exists iff
\* one of them triggers.
C3_HeatHigherLadderWins ==
    \A p \in Calls : Detected(p) =>
        LET hi   == calculate_heat_index(data[p].temperature, data[p].humidity)
            byhi == IF HeatGeq(hi, 55) THEN EMERGENCY
                    ELSE IF HeatGeq(hi, 52) THEN CRITICAL
                    ELSE IF HeatGeq(hi, 40) THEN WARNING
                    ELSE NoSeverity
            byt  == Ladder(data[p].temperature, 35, 40, 45)
            want == SeverityMax(byhi, byt)
            got  == EventsOfType(events[p], "heat_warning")
        IN  /\ Len(got) = (IF want = NoSeverity THEN 0 ELSE 1)
            /\ Len(got) = 1 => got[1].severity = want

\* ---------------------------------------------------------------- C4
\* C4: a flood event is produced iff the additive flood score is at least
\* 0.5; it is CRITICAL iff the score is at least 0.7 and WARNING otherwise,
\* never EMERGENCY; humidity 95 with pressure 988 produces a flood event.
C4_FloodScoreDecides ==
    \A p \in Calls : Detected(p) =>
        LET score == flood_risk_score(data[p])
            got   == EventsOfType(events[p], "flood_warning")
        IN  /\ Len(got) = (IF score >= 5 THEN 1 ELSE 0)
            /\ Len(got) = 1 =>
                  got[1].severity = (IF score >= 7 THEN CRITICAL ELSE WARNING)
            /\ (data[p].humidity = 95 /\ data[p].pressure = 988) => Len(got) = 1

C4_Witness ==
    \E p \in Calls :
        /\ Detected(p)
        /\ data[p].humidity = 95 /\ data[p].pressure = 988
        /\ \E i \in 1..Len(events[p]) :
              /\ events[p][i].event_type = "flood_warning"
              /\ events[p][i].severity = CRITICAL

\* ---------------------------------------------------------------- C5
\* C5: event_history never holds more than 50 events and is always the most
\* recently recorded events in recording order (the oldest is evicted).
C5_HistoryIsLastFifty ==
    /\ Len(event_history) <= 50
    /\ event_history =
          IF Len(recorded) > 50
          THEN SubSeq(recorded, Len(recorded) - 49, Len(recorded))
          ELSE recorded

\* an event was recorded into a full history by one call while another call
\* was in flight
C5_Witness ==
    /\ Len(recorded) > 50
    /\ Len(event_history) = 50
    /\ event_history[1] = recorded[Len(recorded) - 49]
    /\ \E p \in Calls : pc[p] = "send_wait"
    /\ \E i \in 1..(Len(recorded) - 1) : recorded[i].event_id > recorded[i + 1].event_id

\* ---------------------------------------------------------------- C6
\* C6: when the broadcast of one event is over, a subscriber whose send
\* failed is no longer subscribed and was tried once; every other subscriber
\* of the list was sent the event exactly once and is still subscribed.
BroadcastOver(p) ==
    /\ pc[p] = "respond"
    /\ PersistAttempted(CurrentEvent(p).event_id)

C8_BroadcastNeverBehindEscalation ==
    \A p \in Calls : pc[p] \in {"handler_wait", "workflow_wait"} =>
        \A i \in 1..Len(events[p]) : InSeq(events[p][i].event_id, broadcast_log)

\* ---------------------------------------------------------------- C9
\* C9: the emergency workflow is invoked exactly once for a returned event
\* of severity critical or emergency and never for one of severity info or
\* warning.
C9_WorkflowOncePerSevereEvent ==
    \A p \in Calls : \A i \in 1..Len(events[p]) :
        LET e == events[p][i]
            n == Count(e.event_id, workflow_log)
        IN  /\ n <= 1
            /\ e.severity \in {INFO, WARNING} => n = 0
            /\ (pc[p] = "done" /\ e.severity \in {CRITICAL, EMERGENCY}) => n = 1

C9_Witness ==
    \E p \in Calls : \E i, j \in 1..Len(returned[p]) :
        /\ pc[p] = "done"
        /\ returned[p][i].severity = CRITICAL
        /\ Count(returned[p][i].event_id, workflow_log) = 1
        /\ returned[p][j].severity = WARNING
        /\ Count(returned[p][j].event_id, workflow_log) = 0

\* --------------------------------------------------------------- C10
\* C10: a failing emergency workflow or handler is not propagated: no call
\* ends by raising, a finished call returns every produced event and has
\* handed each to broadcast_event, and the return of an escalation call
\* leaves event_history and the subscriber list as they were.
C10_EscalationFailureContained ==
    /\ [](\A p \in Calls :
            /\ pc[p] # "raised"
            /\ pc[p] = "done" =>
                  /\ returned[p] = events[p]
                  /\ \A i \in 1..Len(events[p]) :
                        InSeq(events[p][i].event_id, broadcast_log))
    /\ [][\A p \in Calls :
            (pc[p] \in {"handler_wait", "workflow_wait"} /\ pc'[p] # pc[p]) =>
                /\ event_history' = event_history
                /\ active_connections' = active_connections]_vars

C10_Witness ==
    \E p \in Calls :
        /\ pc[p] = "done"
        /\ Len(returned[p]) = 2
        /\ returned[p][1].event_id \in escalation_failed
        /\ InSeq(returned[p][2].event_id, broadcast_log)
        /\ active_connections # <<>>

\* ---------------------------------------------------------------- C11
\* the fixed expiry interval of a hazard
ExpiryInterval(event_type) ==
    IF event_type = "typhoon_warning" THEN TyphoonExpiry
    ELSE IF event_type = "heat_warning" THEN HeatExpiry
    ELSE FloodExpiry

\* a step in which get_active_events returned a new list
QueryStep == active_events' # active_events

\* C11: get_active_events returns exactly the events of event_history whose
\* expires_at is unset or later than the current time, each once and in the
\* order of the history; the call leaves event_history and the subscriber
\* list as they were, so an expired event is left out of the result and stays
\* in the history.
C11_ActiveEventsAreUnexpired ==
    [][QueryStep =>
         /\ Members(active_events') =
               {e \in Members(event_history) : e.expires_at = NoExpiry \/ e.expires_at > now}
         /\ \A i, j \in 1..Len(active_events') :
               i < j => \E k, l \in 1..Len(event_history) :
                           /\ k < l
                           /\ event_history[k] = active_events'[i]
                           /\ event_history[l] = active_events'[j]
         /\ event_history' = event_history
         /\ active_connections' = active_connections]_vars

\* an event past its expiry is in the history and not in the list a query
\* at this time returned, which holds another event
C11_Witness ==
    /\ active_events = get_active_events(event_history, now)
    /\ active_events # <<>>
    /\ \E e \in Members(event_history) :
          e.expires_at # NoExpiry /\ e.expires_at <= now /\ e \notin Members(active_events)

\* ---------------------------------------------------------------- C12
\* C12: every event process_weather_update produced expires exactly its
\* hazard's interval (typhoon 6 h, heat 12 h, flood 24 h) after its creation
\* timestamp, and get_active_events never returns an event whose interval
\* has elapsed, while it returns every recorded event whose interval has not.
C12_ExpiryIsTimestampPlusInterval ==
    /\ [](\A p \in Calls : \A e \in Members(events[p]) :
             e.expires_at = e.timestamp + ExpiryInterval(e.event_type))
    /\ [][QueryStep =>
            \A e \in Members(event_history) :
               (e \in Members(active_events')) <=>
                  now < e.timestamp + ExpiryInterval(e.event_type)]_vars

\* ---------------------------------------------------------------- C13
EventTypesOf(q) == [i \in 1..Len(q) |-> q[i].event_type]

\* the hazard's check, run on its own on the observation, produces an event
HazardIn(observation, hazard) ==
    IF hazard = "typhoon_warning"
    THEN check_typhoon_conditions(observation, "", 0, 0, 0) # <<>>
    ELSE IF hazard = "heat_warning"
    THEN check_heat_conditions(observation, "", 0, 0, 0) # <<>>
    ELSE check_flood_conditions(observation, "", 0, 0, 0) # <<>>

\* C13: the list a call of process_weather_update builds holds at most one
\* typhoon, one heat and one flood event, in that order, and a hazard's event
\* is in it exactly when that hazard's check on the call's own observation
\* produces one, whatever the other checks and earlier calls did.
C13_OneEventPerHazardInOrder ==
    \A p \in Calls :
       Detected(p) =>
          EventTypesOf(events[p]) =
             SelectSeq(<<"typhoon_warning", "heat_warning", "flood_warning">>,
                       LAMBDA hazard : HazardIn(data[p], hazard))

\* after a call that produced all three events, a second call of the same
\* caller produced only the heat and the flood event
C13_Witness ==
    \E p \in Calls :
       /\ updates[p] >= 2
       /\ Members(broadcast_log) = {1, 2, 3}
       /\ EventTypesOf(events[p]) = <<"heat_warning", "flood_warning">>

\* ---------------------------------------------------------------- C14
\* C14: a call whose observation carries no location fails visibly to the
\* caller and creates no event; no event for the placeholder location is
\* recorded or broadcast.
C14_MissingLocationRejected ==
    /\ \A p \in Calls :
          Detected(p) /\ data[p].location = Missing =>
             pc[p] = "raised" /\ events[p] = <<>>
    /\ \A e \in Members(event_history) : e.location # "Unknown"
    /\ \A p \in Calls : \A e \in Members(events[p]) :
          e.location = "Unknown" => e.event_id \notin Members(broadcast_log)

\* ---------------------------------------------------------------- C15
\* the risks of a RiskScore are held in hundredths
Scored == risk # NoResult
Categories == {"typhoon", "flooding", "heat_stress", "general_weather"}

\* C15: every RiskScore returned by calculate_risk_scores has its four
\* category risks and its overall risk between 0 and 1, and its overall risk
\* equals 0.4 typhoon + 0.3 flooding + 0.2 heat_stress + 0.1 general_weather
\* of the returned category risks.  All returned risks are whole hundredths,
\* so agreement within 1e-6 is equality: 10 overall = 4 T + 3 F + 2 H + G.
C15_RisksInRangeAndWeighted ==
    Scored =>
        /\ \A cat \in Categories : risk.category_risks[cat] \in 0..100
        /\ risk.overall_risk \in 0..100
        /\ 10 * risk.overall_risk =
              4 * risk.category_risks.typhoon + 3 * risk.category_risks.flooding
              + 2 * risk.category_risks.heat_stress
              + risk.category_risks.general_weather

\* a score whose four category risks are all above zero
C15_Witness ==
    /\ Scored
    /\ risk.category_risks.typhoon = 70
    /\ risk.category_risks.flooding = 40
    /\ risk.category_risks.heat_stress = 40
    /\ risk.category_risks.general_weather = 50
    /\ risk.overall_risk = 53

\* ---------------------------------------------------------------- C16
RiskLevels == {"MINIMAL", "LOW", "MODERATE", "HIGH", "CRITICAL"}

\* both windows of calculate_risk_scores are empty
WindowsEmpty ==
    /\ get_weather_data(current_weather, now, 1) = <<>>
    /\ get_forecast_data(weather_forecast, now, 24) = <<>>

\* C16: for every location, also one whose current and forecast windows are
\* both empty, calculate_risk_scores returns one of the five risk levels.
C16_LevelIsOneOfFive == Scored => risk.risk_level \in RiskLevels

\* C16 as the code has it: one of the five levels when a window has a row,
\* and the all-zero score of level UNKNOWN when both windows are empty.
C16_LevelIsOneOfFiveOrUnknown ==
    Scored =>
        IF WindowsEmpty
        THEN /\ risk.risk_level = "UNKNOWN"
             /\ risk.overall_risk = 0
             /\ \A cat \in Categories : risk.category_risks[cat] = 0
        ELSE risk.risk_level \in RiskLevels

\* a score for a location whose only rows lie outside both windows
C16_Witness ==
    /\ Scored
    /\ WindowsEmpty
    /\ current_weather # <<>>
    /\ weather_forecast # <<>>

\* ---------------------------------------------------------------- C17
\* the ladder of levels on a risk in hundredths
LevelOfHundredths(h) ==
    IF h >= 80 THEN "CRITICAL"
    ELSE IF h >= 60 THEN "HIGH"
    ELSE IF h >= 40 THEN "MODERATE"
    ELSE IF h >= 20 THEN "LOW"
    ELSE "MINIMAL"

\* C17: when a window has a row, the returned risk_level is the ladder of
\* levels applied to the returned overall_risk; with four category risks of 0
\* the score is overall 0.0 and MINIMAL.
C17_LevelMatchesReturnedOverall ==
    (Scored /\ ~WindowsEmpty) =>
        /\ risk.risk_level = LevelOfHundredths(risk.overall_risk)
        /\ (\A cat \in Categories : risk.category_risks[cat] = 0)
              => (risk.overall_risk = 0 /\ risk.risk_level = "MINIMAL")

\* ---------------------------------------------------------------- C18
\* readings a field is raised to
RaisedReadings == {10, 60, 100}

TyphoonRiskOf(current_table, forecast_table) ==
    round2(calculate_typhoon_risk(get_weather_data(current_table, now, 1),
                                  get_forecast_data(forecast_table, now, 24)))
FloodRiskOf(current_table, forecast_table) ==
    round2(calculate_flood_risk(get_weather_data(current_table, now, 1),
                                get_forecast_data(forecast_table, now, 24)))
HeatRiskOf(current_table, forecast_table) ==
    round2(calculate_heat_risk(get_weather_data(current_table, now, 1),
                               get_forecast_data(forecast_table, now, 24)))

\* the risks of the three categories do not go down when one reading of row i
\* of the table is raised
RaisingKeepsRisks(table, i, current_after(_, _, _), forecast_after(_, _, _)) ==
    \A v \in RaisedReadings :
        /\ v > table[i].wind_speed =>
              TyphoonRiskOf(current_after(i, "wind_speed", v),
                            forecast_after(i, "wind_speed", v))
                 >= risk.category_risks.typhoon
        /\ v > table[i].temperature =>
              HeatRiskOf(current_after(i, "temperature", v),
                         forecast_after(i, "temperature", v))
                 >= risk.category_risks.heat_stress
        /\ v > table[i].humidity =>
              FloodRiskOf(current_after(i, "humidity", v),
                          forecast_after(i, "humidity", v))
                 >= risk.category_risks.flooding
        /\ ("precipitation_probability" \in DOMAIN table[i]
            /\ v > table[i].precipitation_probability) =>
              FloodRiskOf(current_after(i, "precipitation_probability", v),
                          forecast_after(i, "precipitation_probability", v))
                 >= risk.category_risks.flooding

\* C18: raising one field of one observation, every other input fixed, never
\* lowers the risk of the category the field feeds (wind_speed: typhoon,
\* temperature: heat_stress, humidity and precipitation_probability:
\* flooding), whatever the starting value, 0 included.
C18_RaisingAFieldNeverLowersRisk ==
    Scored =>
        /\ \A i \in 1..Len(current_weather) :
              RaisingKeepsRisks(current_weather, i,
                  LAMBDA j, field, v : [current_weather EXCEPT ![j][field] = v],
                  LAMBDA j, field, v : weather_forecast)
        /\ \A i \in 1..Len(weather_forecast) :
              RaisingKeepsRisks(weather_forecast, i,
                  LAMBDA j, field, v : current_weather,
                  LAMBDA j, field, v : [weather_forecast EXCEPT ![j][field] = v])

\* ---------------------------------------------------------------- C19
\* x ranks at least as high as y in (severity, confidence)
RanksAtLeast(x, y) == ~RanksAbove(y, x)

\* same anomaly_type and timestamps less than one hour apart
SharesTypeAndHour(x, y) ==
    /\ x.anomaly_type = y.anomaly_type
    /\ Abs(x.timestamp - y.timestamp) < Hour

\* C19: in the list detect_anomalies returns, no two anomalies share the
\* anomaly_type with timestamps less than one hour apart, there are at most
\* 10 entries, the order is (severity, confidence) descending, and every
\* candidate dropped as a duplicate ranks no higher than the kept anomaly it
\* duplicates.  A candidate that is not returned either duplicates a returned
\* anomaly that ranks at least as high, or lost its place to the limit of 10:
\* then it ranks no higher than the last of the ten.
C19_DeduplicatedRankedAndCapped ==
    detected =>
        /\ \A i, j \in 1..Len(unique_anomalies) :
              i < j => /\ ~SharesTypeAndHour(unique_anomalies[i], unique_anomalies[j])
                       /\ RanksAtLeast(unique_anomalies[i], unique_anomalies[j])
        /\ Len(unique_anomalies) <= 10
        /\ Members(unique_anomalies) \subseteq Members(anomalies)
        /\ \A c \in Members(anomalies) \ Members(unique_anomalies) :
              \/ \E u \in Members(unique_anomalies) :
                    SharesTypeAndHour(c, u) /\ RanksAtLeast(u, c)
              \/ /\ Len(unique_anomalies) = 10
                 /\ RanksAtLeast(unique_anomalies[10], c)

\* ten anomalies are returned out of more candidates, one of which was
\* dropped as a duplicate and one of which fell to the limit
C19_Witness ==
    /\ detected
    /\ Len(unique_anomalies) = 10
    /\ \E c \in Members(anomalies) \ Members(unique_anomalies) :
          \E u \in Members(unique_anomalies) : SharesTypeAndHour(c, u)
    /\ \E c \in Members(anomalies) \ Members(unique_anomalies) :
          \A u \in Members(unique_anomalies) : ~SharesTypeAndHour(c, u)

\* ---------------------------------------------------------------- C20
\* the observations stored are five of 25 degrees and one of 50
SixTemperatures ==
    /\ Len(current_weather) = 6
    /\ Cardinality({i \in 1..6 : current_weather[i].temperature = 25}) = 5
    /\ Cardinality({i \in 1..6 : current_weather[i].temperature = 50}) = 1

\* C20: with the six temperatures [25,25,25,25,25,50] stored for a location,
\* detect_anomalies flags a HIGH temperature_outlier of value 50.
C20_SixTemperaturesFlagOutlier ==
    (detected /\ SixTemperatures) =>
        \E i \in 1..Len(unique_anomalies) :
            /\ unique_anomalies[i].anomaly_type = "temperature_outlier"
            /\ unique_anomalies[i].severity = "HIGH"
            /\ unique_anomalies[i].value = 50

\* C20 as the code has it: six observations are fewer than the ten the
\* baseline needs, so detect_anomalies returns the empty list.
C20_SixTemperaturesGiveNoAnomalies ==
    (detected /\ SixTemperatures) => (unique_anomalies = <<>> /\ passes = <<>>)

C20_Witness ==
    /\ detected
    /\ SixTemperatures
    /\ current_weather[6].temperature = 50
    /\ Len(get_weather_data(current_weather, now, 3)) = 6

\* ---------------------------------------------------------------- C21
\* the observations stored are five identical readings
FiveUniform ==
    /\ Len(current_weather) = 5
    /\ \A i \in 1..5 : \A f \in {"temperature", "pressure", "humidity", "wind_speed"} :
          current_weather[i][f] = current_weather[1][f]

\* the call detect_anomalies(location, days) finds fewer than 3 observations in
\* its recent window or fewer than 10 in its baseline
ShortOfData(days) ==
    \/ Len(get_weather_data(current_weather, now, days)) < 3
    \/ Len(get_weather_data(current_weather, now, 30)) < 10

\* C21: a call of detect_anomalies whose recent window has fewer than 3
\* observations, or whose baseline has fewer than 10, returns the empty list
\* and runs none of the three detection passes; five uniform observations
\* give no anomalies.
C21_ShortOfDataRunsNoPass ==
    /\ []((detected /\ FiveUniform) => unique_anomalies = <<>>)
    /\ [][\A days \in AnalysisDays :
            (ShortOfData(days) /\ DetectAnomalies(days)) =>
                (unique_anomalies' = <<>> /\ passes' = <<>>)]_vars

C21_Witness ==
    /\ detected
    /\ FiveUniform
    /\ Len(get_weather_data(current_weather, now, 3)) = 5
    /\ passes = <<>>

\* ---------------------------------------------------------------- C22
\* C22: a call of analyze_weather_patterns that finds fewer than 5
\* observations in its window returns the empty list, whatever their values;
\* so it does when exactly 4 observations are stored.
C22_FewObservationsGiveNoPatterns ==
    /\ []((analyzed /\ Len(current_weather) = 4) => patterns = <<>>)
    /\ [][\A days \in PatternDays :
            (/\ Len(get_weather_data(current_weather, now, days)) < 5
             /\ AnalyzeWeatherPatterns(days)) => patterns' = <<>>]_vars

\* four observations in the window, the last one of a typhoon
C22_Witness ==
    /\ analyzed
    /\ Len(get_weather_data(current_weather, now, 1)) = 4
    /\ current_weather[4].wind_speed = 130
    /\ patterns = <<>>

\* ---------------------------------------------------------------- C23
\* the rule a pattern type belongs to, in the order the rules are applied
RuleOf(pattern_type) ==
    CASE pattern_type = "rapid_pressure_drop" -> 1
      [] pattern_type = "heat_stress"         -> 2
      [] pattern_type = "high_humidity"       -> 3
      [] pattern_type = "strong_winds"        -> 4
      [] pattern_type = "moderate_winds"      -> 4
      [] pattern_type = "storm_development"   -> 5
      [] OTHER                                -> 0

\* C23: the returned patterns come from the rules pressure, temperature,
\* humidity, wind, composite in this order, at most one pattern from each rule;
\* strong_winds and moderate_winds never both appear.
C23_OnePatternPerRuleInOrder ==
    analyzed =>
        /\ \A i \in 1..Len(patterns) : RuleOf(patterns[i].pattern_type) \in 1..5
        /\ \A i, j \in 1..Len(patterns) :
              i < j => RuleOf(patterns[i].pattern_type) < RuleOf(patterns[j].pattern_type)

\* every rule has given a pattern
C23_Witness ==
    /\ analyzed
    /\ [i \in 1..Len(patterns) |-> patterns[i].pattern_type]
         = <<"rapid_pressure_drop", "heat_stress", "high_humidity", "strong_winds",
             "storm_development">>

\* ---------------------------------------------------------------- C24
\* C24: a call of analyze_trends that finds fewer than 7 observations in its
\* window returns the insufficient-data result.
C24_FewObservationsGiveInsufficientData ==
    (trends # NoResult /\ Len(trend_data) < 7) => trends = InsufficientTrendData

\* six observations in the window, the temperature rising
C24_Witness ==
    /\ trends = InsufficientTrendData
    /\ Len(trend_data) = 6
    /\ current_weather[6].temperature > current_weather[1].temperature

\* ---------------------------------------------------------------- C25
Directions == {"increasing", "decreasing", "stable"}
Significances == {"low", "moderate", "high"}

\* the report has the four field entries and the assessment
CompleteReport(report) ==
    /\ DOMAIN report = {"temperature", "pressure", "humidity", "wind_speed", "assessment"}
    /\ \A i \in 1..Len(TrendFields) :
          /\ report[TrendFields[i]].direction \in Directions
          /\ report[TrendFields[i]].significance \in Significances

\* C25: every result of analyze_trends has entries for temperature, pressure,
\* humidity and wind_speed plus an assessment, each field entry with a
\* direction in {increasing, decreasing, stable} and a significance in
\* {low, moderate, high}.
C25_EveryReportComplete == trends # NoResult => CompleteReport(trends)

\* C25 as the code has it: the result is complete whenever the call finds at
\* least 7 observations in its window.
C25_ReportCompleteFromSevenRows ==
    (trends # NoResult /\ Len(trend_data) >= 7) => CompleteReport(trends)

\* a complete report with a rise, a fall and a stable field
C25_Witness ==
    /\ trends # NoResult
    /\ Len(trend_data) >= 7
    /\ trends.temperature.direction = "increasing"
    /\ trends.pressure.direction = "decreasing"
    /\ trends.humidity.direction = "stable"
    /\ {trends[TrendFields[i]].significance : i \in 1..Len(TrendFields)} = Significances

\* ---------------------------------------------------------------- C28
Reported == trends # NoResult /\ trends # InsufficientTrendData

HighFields ==
    {i \in 1..Len(TrendFields) : trends[TrendFields[i]].significance = "high"}

\* C28: the overall stability is UNSTABLE with 3 or more fields of high
\* significance, CHANGING with exactly 2, STABLE with fewer, and
\* significant_trends_count is the number of those fields.
C28_StabilityCountsHighFields ==
    Reported =>
        /\ trends.assessment.significant_trends_count = Cardinality(HighFields)
        /\ trends.assessment.overall_stability =
              (IF Cardinality(HighFields) >= 3 THEN "UNSTABLE"
               ELSE IF Cardinality(HighFields) = 2 THEN "CHANGING"
               ELSE "STABLE")

\* exactly two fields of high significance
C28_Witness ==
    /\ Reported
    /\ Cardinality(HighFields) = 2
    /\ trends.assessment.overall_stability = "CHANGING"

\* ---------------------------------------------------------------- C26
\* C26: when a broadcast is over, every subscriber that was in the list for
\* its whole duration has been sent the event, also when other subscribers
\* were removed while the broadcast awaited a send.  (Subscribers join between
\* two calls and never rejoin, so the ones in the list at the end were in it
\* throughout.)
C26_NoLiveSubscriberSkipped ==
    \A p \in Calls : BroadcastOver(p) =>
        \A s \in Websockets :
            InSeq(s, active_connections) => Alerts(s, CurrentEvent(p).event_id) # {}

\* ---------------------------------------------------------------- C29
\* send_text calls that delivered event id to websocket s, as a replay or an
\* alert
Deliveries(s, id) == {j \in 1..Len(sent[s]) : sent[s][j][2] = id /\ sent[s][j][3]}

\* C29: whatever the interleaving of add_connection with a broadcast, a
\* subscriber is sent any given event at most once, never both as a
\* recent_event replay and as a real_time_alert.
C29_EventSentAtMostOnce ==
    \A s \in Websockets : \A id \in 1..(next_id - 1) :
        Cardinality(Deliveries(s, id)) <= 1

\* ---------------------------------------------------------------- C27
\* the list all_data of the scorer: the current rows, then the forecast rows
MergedSeries ==
    get_weather_data(current_weather, now, 1) \o get_forecast_data(weather_forecast, now, 24)

NeverDecreasing(values) ==
    \A i \in 1..(Len(values) - 1) : values[i + 1] >= values[i]

\* C27: when the pressure never decreases from one sample of the merged
\* current+forecast series to the next, the typhoon risk has no pressure-drop
\* contribution: it is the wind part alone.
C27_NoDropNoPressureContribution ==
    (Scored /\ NeverDecreasing(Column(MergedSeries, "pressure"))) =>
        risk.category_risks.typhoon = round2(typhoon_wind_risk(MergedSeries))

\* ---------------------------------------------------------------- C30
\* C30: the overall risk is at most 0.62, the category risks being at most
\* 0.7 (typhoon), 0.7 (flooding), 0.4 (heat_stress) and 0.5 (general_weather);
\* the level CRITICAL is never returned.
C30_OverallAtMostSixtyTwoHundredths ==
    Scored =>
        /\ risk.category_risks.typhoon <= 70
        /\ risk.category_risks.flooding <= 70
        /\ risk.category_risks.heat_stress <= 40
        /\ risk.category_risks.general_weather <= 50
        /\ risk.overall_risk <= 62
        /\ risk.risk_level # "CRITICAL"

\* every category at its cap
C30_Witness ==
    /\ Scored
    /\ risk.category_risks =
          [typhoon |-> 70, flooding |-> 70, heat_stress |-> 40, general_weather |-> 50]
    /\ risk.overall_risk = 62
====
